---- MODULE Spec2Model ----
(***************************************************************************)
(* A model of the transaction lifecycle of the Fireblocks raw client:      *)
(* the transaction poller (shared/transaction-poller), and the raw signing *)
(* flow and transfer engine built on it (EVM/web3_instance.refactored.ts,  *)
(* EVM/transfer.refactored.ts).                                            *)
(*                                                                         *)
(* Timing idealisation: a remote call takes no time and sleep(ms) lasts    *)
(* exactly ms, so the clock `now` moves only when a sleeping poll wakes.   *)
(* Code that runs between two awaits is one atomic step (JavaScript runs a *)
(* continuation to its next await without interleaving).                   *)
(***************************************************************************)
EXTENDS Integers, Sequences, FiniteSets, TLC

\* ------------------------------------------------------------------------
\* Bounds of the model
\* ------------------------------------------------------------------------
\* largest intervalMs a caller of the poller passes in PollSpec
MaxIntervalMs == 2
\* largest timeoutMs a caller of the poller passes in PollSpec
MaxTimeoutMs == 3
\* number of fetches for which the legacy polling loop is followed
MaxLegacyFetches == 5

\* ------------------------------------------------------------------------
\* Program constants
\* ------------------------------------------------------------------------
\* POLLING.INTERVAL_MS
INTERVAL_MS == 1000
\* POLLING.TIMEOUT_MS
TIMEOUT_MS == 600000

\* ------------------------------------------------------------------------
\* Values
\* ------------------------------------------------------------------------
Undefined == "undefined"

\* transaction ids of the signing service
TxIds == {"tx1", "tx2"}

\* TransactionStatus values the remote service may report: the ones the code
\* names, pending ones, and one the code has never heard of
TerminalNamed == {"COMPLETED", "FAILED", "BLOCKED", "CANCELLED"}
Statuses == TerminalNamed \cup {"REJECTED", "PENDING_SIGNATURE", "FUTURE_STATUS"}

\* the ECDSA signatures the signing service may return: r and s are opaque,
\* v is the recovery id
Signatures == {[r |-> "r1", s |-> "s1", v |-> v] : v \in {0, 1}}

\* txInfo.signedMessages: absent, or a list of messages with a signature
NoSignedMessages == [present |-> FALSE, list |-> <<>>]
SignedMessages ==
    {NoSignedMessages, [present |-> TRUE, list |-> <<>>]}
    \cup {[present |-> TRUE, list |-> <<[signature |-> sig]>>] : sig \in Signatures}

\* what getTransactionById(id) may resolve to: signedMessages is present
\* only on a COMPLETED transaction
Snapshots(id) ==
    {[id |-> id, status |-> s, signedMessages |-> NoSignedMessages] :
        s \in Statuses \ {"COMPLETED"}}
    \cup {[id |-> id, status |-> "COMPLETED", signedMessages |-> m] : m \in SignedMessages}

NoSnapshot == [id |-> Undefined, status |-> Undefined, signedMessages |-> NoSignedMessages]

\* ------------------------------------------------------------------------
\* shared/types.ts
\* ------------------------------------------------------------------------
IsTerminalStatus(status) ==
    \/ status = "COMPLETED"
    \/ status = "FAILED"
    \/ status = "BLOCKED"
    \/ status = "CANCELLED"

IsFailedStatus_WithCancelled(status) ==
    status \in {"FAILED", "BLOCKED", "REJECTED", "CANCELLED"}

IsFailedStatus(status) ==
    \/ status = "FAILED"
    \/ status = "BLOCKED"
    \/ status = "REJECTED"

\* ------------------------------------------------------------------------
\* shared/errors.ts
\* ------------------------------------------------------------------------
NoContext == [operation |-> Undefined, lastStatus |-> Undefined, cancelled |-> Undefined]

NoError ==
    [name |-> "none", transactionId |-> Undefined, status |-> Undefined,
     timeoutMs |-> 0, context |-> NoContext]

TransactionError(transactionId, status, context) ==
    [name |-> "TransactionError", transactionId |-> transactionId,
     status |-> status, timeoutMs |-> 0, context |-> context]

TransactionTimeoutError(transactionId, timeoutMs, context) ==
    [TransactionError(transactionId, "TIMEOUT", context)
        EXCEPT !.name = "TransactionTimeoutError", !.timeoutMs = timeoutMs]

\* ------------------------------------------------------------------------
\* State
\* ------------------------------------------------------------------------
VARIABLES
    now,            \* Date.now(), in ms
    poll,           \* the pollTransaction invocations, by slot
    untilSuccess,   \* the pollTransactionUntilSuccess invocation
    fireblocks,     \* the calls the signing service has received
    web3,           \* eth.defaultAccount of the Web3 instances of initWeb3Instance
    sign,           \* the signTransactionViaFireblocks invocation
    transfer,       \* the transfer invocation
    rpc,            \* the calls the chain RPC node has received
    btc,            \* the signBtcTransaction invocation
    select,         \* the selectUTXOsForAmount invocation
    pollAll,        \* the pollTransactions invocation
    resume,         \* the resumeTransaction invocation
    legacy          \* the invocation of the legacy signBtcTransaction

vars == <<now, poll, untilSuccess, fireblocks, web3, sign, transfer, rpc, btc, select,
          pollAll, resume, legacy>>

\* what the poller leaves alone
flowVars == <<web3, sign, transfer, rpc, btc, select, pollAll, resume, legacy>>

\* what the legacy signer leaves alone, besides the poller's state
flowVarsOfLegacy == <<web3, sign, transfer, rpc, btc, select, pollAll, resume>>

\* pollTransaction invocations that may be in flight at once
Slots == {1, 2}

NoResult == [finalStatus |-> Undefined, transactionInfo |-> NoSnapshot, cancelled |-> FALSE]

\* a slot that holds no invocation; onStatusChange tells whether the config
\* has the callback and statusChanges lists the calls the callback received
IdlePoll ==
    [pc |-> "idle", transactionId |-> Undefined, intervalMs |-> 0, timeoutMs |-> 0,
     startTime |-> 0, wakeAt |-> 0, endedAt |-> 0,
     currentStatus |-> Undefined, transactionInfo |-> NoSnapshot,
     result |-> NoResult, error |-> NoError,
     onStatusChange |-> FALSE, statusChanges |-> <<>>,
     observed |-> FALSE, firstStatus |-> Undefined, statusChanged |-> FALSE,
     lastOkStatus |-> Undefined, laterFetchOk |-> FALSE,
     laterFetchFailed |-> FALSE, lastFetchFailed |-> FALSE, okStatuses |-> <<>>]

\* pollTransaction up to its first await: the config is destructured, the
\* start time taken and the initial getTransactionById issued
StartPoll(transactionId, intervalMs, timeoutMs, clock) ==
    [IdlePoll EXCEPT !.pc = "initialFetch", !.transactionId = transactionId,
                     !.intervalMs = intervalMs, !.timeoutMs = timeoutMs,
                     !.startTime = clock]

\* The fields from firstStatus on are history, kept for the properties of
\* the poller and only for a poll marked observed; the code has no such state.
\* okStatuses, the statuses fetched so far, is kept for a poll with a callback.
Observe(p, fetched, ok, initial) ==
    IF ~p.observed THEN p
    ELSE LET q == IF ok /\ p.onStatusChange
                  THEN [p EXCEPT !.okStatuses = Append(@, fetched)] ELSE p
         IN  IF initial
             THEN [q EXCEPT !.firstStatus = fetched, !.lastOkStatus = fetched]
             ELSE IF ok
                  THEN [q EXCEPT !.lastOkStatus = fetched, !.laterFetchOk = TRUE,
                                 !.lastFetchFailed = FALSE,
                                 !.statusChanged = @ \/ fetched # p.firstStatus]
                  ELSE [q EXCEPT !.laterFetchFailed = TRUE, !.lastFetchFailed = TRUE]

\* cancels counts the cancelTransactionById calls, cancelled holds the ids
\* whose cancel the service accepted; existing holds the RAW requests of
\* earlier runs that a resumed signing has fetched, with the content they sign
NoCalls ==
    [gets |-> [id \in TxIds |-> 0], cancels |-> [id \in TxIds |-> 0],
     cancelled |-> {}, created |-> <<>>, existing |-> <<>>,
     depositAddressQueries |-> 0]

\* ------------------------------------------------------------------------
\* pollTransaction
\* ------------------------------------------------------------------------
TimedOut_Inverted(clock, startTime, timeoutMs) == clock - startTime < timeoutMs

TimedOut_Never(clock, startTime, timeoutMs) == FALSE

\* Date.now() - startTime > timeoutMs
TimedOut(clock, startTime, timeoutMs) == clock - startTime > timeoutMs

\* The poll from the head of its while loop to its next await: the loop
\* condition, the timeout check and the call of sleep; or, out of the loop,
\* the isFailedStatus test and the return
LoopHead(p, clock) ==
    IF IsTerminalStatus(p.currentStatus)
    THEN IF IsFailedStatus(p.currentStatus)
         THEN [p EXCEPT !.pc = "cancel"]
         ELSE [p EXCEPT !.pc = "returned", !.endedAt = clock,
                        !.result = [finalStatus |-> p.currentStatus,
                                    transactionInfo |-> p.transactionInfo,
                                    cancelled |-> FALSE]]
    ELSE IF TimedOut(clock, p.startTime, p.timeoutMs)
         THEN [p EXCEPT !.pc = "threw", !.endedAt = clock,
                        !.error = TransactionTimeoutError(p.transactionId, p.timeoutMs,
                                    [NoContext EXCEPT !.operation = "pollTransaction",
                                                      !.lastStatus = p.currentStatus])]
         ELSE [p EXCEPT !.pc = "sleeping", !.wakeAt = clock + p.intervalMs]

CountGet(id) == fireblocks' = [fireblocks EXCEPT !.gets[id] = @ + 1]

OnStatusChange_OnlyOnChange(p, status) ==
    IF p.onStatusChange
          /\ (p.statusChanges = <<>> \/ p.statusChanges[Len(p.statusChanges)] # status)
    THEN [p EXCEPT !.statusChanges = Append(@, status)]
    ELSE p

\* onStatusChange?.(currentStatus)
OnStatusChange(p, status) ==
    IF p.onStatusChange THEN [p EXCEPT !.statusChanges = Append(@, status)] ELSE p

\* the initial getTransactionById resolves; an error the callback raises is
\* caught with the errors of the fetch
InitialFetchOk(s) ==
    /\ poll[s].pc = "initialFetch"
    /\ \E info \in Snapshots(poll[s].transactionId) :
       \E callbackThrows \in IF poll[s].onStatusChange THEN BOOLEAN ELSE {FALSE} :
          LET p == OnStatusChange(Observe([poll[s] EXCEPT !.transactionInfo = info,
                                                          !.currentStatus = info.status],
                                          info.status, TRUE, TRUE), info.status)
          IN  poll' = [poll EXCEPT ![s] =
                         IF callbackThrows
                         THEN [p EXCEPT !.pc = "threw", !.endedAt = now,
                                  !.error = TransactionError(p.transactionId, Undefined,
                                              [NoContext EXCEPT
                                                  !.operation = "pollTransaction"])]
                         ELSE LoopHead(p, now)]
    /\ CountGet(poll[s].transactionId)
    /\ UNCHANGED <<now, untilSuccess, flowVars>>

\* the initial getTransactionById rejects
InitialFetchFail(s) ==
    /\ poll[s].pc = "initialFetch"
    /\ poll' = [poll EXCEPT ![s] =
                  [@ EXCEPT !.pc = "threw", !.endedAt = now,
                            !.error = TransactionError(poll[s].transactionId, Undefined,
                                        [NoContext EXCEPT !.operation = "pollTransaction"])]]
    /\ CountGet(poll[s].transactionId)
    /\ UNCHANGED <<now, untilSuccess, flowVars>>

\* No poll sleeps past its timeout by more than two intervals: this caps the
\* clock, and is never the reason a poll of the code stops
WakeCap(p) == p.startTime + p.timeoutMs + 2 * p.intervalMs

\* sleep(intervalMs) is over: the timer that is due first fires, once nothing
\* else can run, and the poll issues its next getTransactionById
Wake(s) ==
    /\ poll[s].pc = "sleeping"
    /\ \A t \in Slots : poll[t].pc \in {"idle", "sleeping", "returned", "threw"}
    /\ \A t \in Slots : poll[t].pc = "sleeping" => poll[s].wakeAt <= poll[t].wakeAt
    /\ poll[s].wakeAt <= WakeCap(poll[s])
    /\ now' = IF poll[s].wakeAt > now THEN poll[s].wakeAt ELSE now
    /\ poll' = [poll EXCEPT ![s].pc = "fetch"]
    /\ UNCHANGED <<untilSuccess, fireblocks, flowVars>>

\* a getTransactionById of the loop resolves; an error the callback raises
\* is caught and the loop continues, as it does when the callback returns
FetchOk(s) ==
    /\ poll[s].pc = "fetch"
    /\ \E info \in Snapshots(poll[s].transactionId) :
          poll' = [poll EXCEPT ![s] =
                      LoopHead(OnStatusChange(
                                   Observe([@ EXCEPT !.transactionInfo = info,
                                                     !.currentStatus = info.status],
                                           info.status, TRUE, FALSE),
                                   info.status), now)]
    /\ CountGet(poll[s].transactionId)
    /\ UNCHANGED <<now, untilSuccess, flowVars>>

FetchFail_Throws(s) ==
    /\ poll[s].pc = "fetch"
    /\ poll' = [poll EXCEPT ![s] =
                  [Observe(@, Undefined, FALSE, FALSE)
                      EXCEPT !.pc = "threw", !.endedAt = now,
                            !.error = TransactionError(poll[s].transactionId, Undefined,
                                        [NoContext EXCEPT !.operation = "pollTransaction"])]]
    /\ CountGet(poll[s].transactionId)
    /\ UNCHANGED <<now, untilSuccess, flowVars>>

\* a getTransactionById of the loop rejects: logged, then `continue`
FetchFail(s) ==
    /\ poll[s].pc = "fetch"
    /\ poll' = [poll EXCEPT ![s] = LoopHead(Observe(@, Undefined, FALSE, FALSE), now)]
    /\ CountGet(poll[s].transactionId)
    /\ UNCHANGED <<now, untilSuccess, flowVars>>

CancelFailedTransaction_Rethrows(s) ==
    /\ poll[s].pc = "cancel"
    /\ \/ /\ poll' = [poll EXCEPT ![s] =
                        [@ EXCEPT !.pc = "returned", !.endedAt = now,
                                  !.result = [finalStatus |-> poll[s].currentStatus,
                                              transactionInfo |-> poll[s].transactionInfo,
                                              cancelled |-> TRUE]]]
          /\ fireblocks' = [fireblocks EXCEPT
                               !.cancels[poll[s].transactionId] = @ + 1,
                               !.cancelled = @ \cup {poll[s].transactionId}]
       \/ /\ poll' = [poll EXCEPT ![s] =
                        [@ EXCEPT !.pc = "threw", !.endedAt = now,
                                  !.error = TransactionError(poll[s].transactionId,
                                              poll[s].currentStatus,
                                              [NoContext EXCEPT
                                                  !.operation = "cancelFailedTransaction"])]]
          /\ fireblocks' = [fireblocks EXCEPT !.cancels[poll[s].transactionId] = @ + 1]
    /\ UNCHANGED <<now, untilSuccess, flowVars>>

\* cancelFailedTransaction: cancelTransactionById resolves (true) or rejects
\* (false); pollTransaction returns either way
CancelFailedTransaction(s) ==
    /\ poll[s].pc = "cancel"
    /\ \E ok \in BOOLEAN :
          /\ poll' = [poll EXCEPT ![s] =
                        [@ EXCEPT !.pc = "returned", !.endedAt = now,
                                  !.result = [finalStatus |-> poll[s].currentStatus,
                                              transactionInfo |-> poll[s].transactionInfo,
                                              cancelled |-> ok]]]
          /\ fireblocks' = [fireblocks EXCEPT
                               !.cancels[poll[s].transactionId] = @ + 1,
                               !.cancelled = IF ok THEN @ \cup {poll[s].transactionId}
                                             ELSE @]
    /\ UNCHANGED <<now, untilSuccess, flowVars>>

PollStep(s) ==
    \/ InitialFetchOk(s)
    \/ InitialFetchFail(s)
    \/ Wake(s)
    \/ FetchOk(s)
    \/ FetchFail(s)
    \/ CancelFailedTransaction(s)

\* ------------------------------------------------------------------------
\* pollTransactionUntilSuccess
\* ------------------------------------------------------------------------
IdleUntilSuccess ==
    [pc |-> "idle", slot |-> 1, transactionInfo |-> NoSnapshot, error |-> NoError]

IsSuccess_AnyTerminal(finalStatus) == IsTerminalStatus(finalStatus)

\* result.finalStatus === TransactionStatus.COMPLETED
IsSuccess(finalStatus) == finalStatus = "COMPLETED"

\* the awaited pollTransaction settled: its error propagates, its result is
\* returned on COMPLETED and turned into a TransactionError otherwise
UntilSuccessResume ==
    /\ untilSuccess.pc = "awaitPoll"
    /\ LET p == poll[untilSuccess.slot] IN
         /\ p.pc \in {"returned", "threw"}
         /\ untilSuccess' =
              IF p.pc = "threw"
              THEN [untilSuccess EXCEPT !.pc = "threw", !.error = p.error]
              ELSE IF IsSuccess(p.result.finalStatus)
                   THEN [untilSuccess EXCEPT !.pc = "returned",
                                             !.transactionInfo = p.result.transactionInfo]
                   ELSE [untilSuccess EXCEPT !.pc = "threw",
                            !.error = TransactionError(p.transactionId, p.result.finalStatus,
                                        [NoContext EXCEPT !.cancelled = p.result.cancelled])]
    /\ UNCHANGED <<now, poll, fireblocks, flowVars>>

\* ------------------------------------------------------------------------
\* pollTransactions
\* ------------------------------------------------------------------------
\* values and settled are the state of Promise.all: the value kept for each
\* promise of the array, and the promises that have settled so far, in the
\* order in which they did
IdlePollAll ==
    [pc |-> "idle", transactionIds |-> <<>>, values |-> <<>>, settled |-> <<>>,
     error |-> NoError]

\* transactionIds.map(...) starts the polls, the i-th id in slot i, and
\* Promise.all of no promise resolves with the empty array
PollTransactions(transactionIds) ==
    [IdlePollAll EXCEPT !.pc = IF transactionIds = <<>> THEN "returned" ELSE "awaiting",
                        !.transactionIds = transactionIds,
                        !.values = [i \in DOMAIN transactionIds |-> NoResult]]

\* a poll of the array has settled and Promise.all has not reacted to it yet
Unsettled(s) ==
    /\ s \in DOMAIN pollAll.transactionIds
    /\ poll[s].pc \in {"returned", "threw"}
    /\ \A i \in DOMAIN pollAll.settled : pollAll.settled[i] # s

PollTransactionsSettle_CompletionOrder(s) ==
    /\ Unsettled(s)
    /\ LET settled == Append(pollAll.settled, s)
           values == [pollAll.values EXCEPT ![Len(settled)] = poll[s].result]
       IN  pollAll' =
             IF poll[s].pc = "threw"
             THEN [pollAll EXCEPT !.settled = settled,
                      !.pc = IF @ = "awaiting" THEN "threw" ELSE @,
                      !.error = IF pollAll.pc = "awaiting" THEN poll[s].error ELSE @]
             ELSE [pollAll EXCEPT !.settled = settled, !.values = values,
                      !.pc = IF @ = "awaiting" /\ Len(settled) = Len(values)
                             THEN "returned" ELSE @]
    /\ UNCHANGED <<now, poll, untilSuccess, fireblocks, web3, sign, transfer, rpc, btc, select, resume, legacy>>

\* Promise.all reacts to the poll in slot s: a result is kept at the index of
\* its promise and the last result resolves the array; the first error
\* rejects pollTransactions, while the other polls run on
PollTransactionsSettle(s) ==
    /\ Unsettled(s)
    /\ LET settled == Append(pollAll.settled, s)
           values == [pollAll.values EXCEPT ![s] = poll[s].result]
       IN  pollAll' =
             IF poll[s].pc = "threw"
             THEN [pollAll EXCEPT !.settled = settled,
                      !.pc = IF @ = "awaiting" THEN "threw" ELSE @,
                      !.error = IF pollAll.pc = "awaiting" THEN poll[s].error ELSE @]
             ELSE [pollAll EXCEPT !.settled = settled, !.values = values,
                      !.pc = IF @ = "awaiting" /\ Len(settled) = Len(values)
                             THEN "returned" ELSE @]
    /\ UNCHANGED <<now, poll, untilSuccess, fireblocks, web3, sign, transfer, rpc, btc, select, resume, legacy>>

PollTransactionsStep_StopsOnError(s) ==
    /\ pollAll.pc # "threw"
    /\ \A t \in Slots : ~Unsettled(t)
    /\ PollStep(s)

\* a step of the poll in slot s; the reactions of Promise.all are microtasks
\* and run before any timer or network answer
PollTransactionsStep(s) ==
    /\ \A t \in Slots : ~Unsettled(t)
    /\ PollStep(s)

\* ------------------------------------------------------------------------
\* Numbers: BN and BigInt values, and the decimal strings of JS numbers
\* ------------------------------------------------------------------------
\* A BN or BigInt that is not negative is the sequence of its decimal digits,
\* the most significant first, without leading zeros (zero is <<0>>).
Zeros(k) == [i \in 1..k |-> 0]

RECURSIVE StripZeros(_)
StripZeros(ds) ==
    IF Len(ds) > 1 /\ ds[1] = 0 THEN StripZeros(Tail(ds)) ELSE ds

RECURSIVE Digits(_)
Digits(n) == IF n < 10 THEN <<n>> ELSE Append(Digits(n \div 10), n % 10)

BigGt_OrEqual(a, b) ==
    \/ a = b
    \/ Len(a) > Len(b)
    \/ /\ Len(a) = Len(b)
       /\ \E i \in 1..Len(a) :
             /\ a[i] > b[i]
             /\ \A j \in 1..(i - 1) : a[j] = b[j]

\* a.gt(b), BigInt(a) > BigInt(b)
BigGt(a, b) ==
    \/ Len(a) > Len(b)
    \/ /\ Len(a) = Len(b)
       /\ \E i \in 1..Len(a) :
             /\ a[i] > b[i]
             /\ \A j \in 1..(i - 1) : a[j] = b[j]

\* a.isZero()
BigIsZero(a) == a = <<0>>

RECURSIVE SubDigits(_, _, _, _)
SubDigits(a, b, i, borrow) ==
    IF i = 0 THEN <<>>
    ELSE LET d == a[i] - b[i] - borrow IN
         Append(SubDigits(a, b, i - 1, IF d < 0 THEN 1 ELSE 0),
                IF d < 0 THEN d + 10 ELSE d)

\* a - b for a >= b
BigMinus(a, b) ==
    StripZeros(SubDigits(a, Zeros(Len(a) - Len(b)) \o b, Len(a), 0))

\* BigInt(a) - BigInt(b): a BigInt with its sign
BigSub(a, b) ==
    IF BigGt(b, a) THEN [negative |-> TRUE, magnitude |-> BigMinus(b, a)]
    ELSE [negative |-> FALSE, magnitude |-> BigMinus(a, b)]

RECURSIVE MulDigits(_, _, _, _)
MulDigits(a, n, i, carry) ==
    IF i = 0 THEN Digits(carry)
    ELSE LET p == a[i] * n + carry IN
         Append(MulDigits(a, n, i - 1, p \div 10), p % 10)

\* BigInt(a) * BigInt(n), n a small number
BigMul(a, n) == StripZeros(MulDigits(a, n, Len(a), 0))

\* BigInt(a) / 10n ** BigInt(k): the division of BigInt truncates
BigDivPow10(a, k) ==
    IF Len(a) <= k THEN <<0>> ELSE SubSeq(a, 1, Len(a) - k)

\* A JS number n is what n.toString() prints: a sign, the digits before the
\* point and the digits after it (none for an integer, no trailing zero).
\* Numbers from 0.000001 up to 10^21 print this way, without an exponent.
Decimal(negative, whole, frac) ==
    [negative |-> negative, whole |-> whole, frac |-> frac]

Integer(n) == Decimal(n < 0, Digits(IF n < 0 THEN 0 - n ELSE n), <<>>)

\* amount === 0
IsZeroAmount(amount) == amount.whole = <<0>> /\ amount.frac = <<>>

\* a < b, for numbers that are not negative
DecimalLess(a, b) ==
    LET n == IF Len(a.frac) > Len(b.frac) THEN Len(a.frac) ELSE Len(b.frac) IN
    BigGt(StripZeros(b.whole \o b.frac \o Zeros(n - Len(b.frac))),
          StripZeros(a.whole \o a.frac \o Zeros(n - Len(a.frac))))

RECURSIVE StripTrailingZeros(_)
StripTrailingZeros(ds) ==
    IF Len(ds) > 0 /\ ds[Len(ds)] = 0
    THEN StripTrailingZeros(SubSeq(ds, 1, Len(ds) - 1)) ELSE ds

\* web3.utils.toWei(amount.toString(), "ether") raises on more than 18
\* decimal places
ToWeiThrows(amount) == Len(amount.frac) > 18

\* web3.utils.toWei(amount.toString(), "ether"): the fraction is padded with
\* zeros to 18 digits and read together with the whole part as one integer
ToWei(amount) ==
    StripZeros(amount.whole \o amount.frac \o Zeros(18 - Len(amount.frac)))

\* Number(web3.utils.fromWei(wei.toString(), "ether")): the last 18 digits
\* are the fraction. (Number() keeps a decimal string of up to 15 significant
\* digits as it is; the balances of the model stay within that.)
FromWei(wei) ==
    LET padded == IF Len(wei) < 19 THEN Zeros(19 - Len(wei)) \o wei ELSE wei IN
    Decimal(FALSE,
            SubSeq(padded, 1, Len(padded) - 18),
            StripTrailingZeros(SubSeq(padded, Len(padded) - 17, Len(padded))))

ConvertToSmallestTokenUnit_Always18(amount, decimals) == ToWei(amount)

\* convertToSmallestTokenUnit
ConvertToSmallestTokenUnit(amount, decimals) ==
    BigDivPow10(ToWei(amount), 18 - decimals)

\* ------------------------------------------------------------------------
\* Values of the signing flow and of the transfer engine
\* ------------------------------------------------------------------------
\* largest transaction count (nonce) the RPC node reports
MaxNonce == 1

\* GAS.SIMPLE_TRANSFER_LIMIT
SIMPLE_TRANSFER_LIMIT == 21000

Null == "null"

\* the Web3 instances initWeb3Instance constructs: over the HTTP provider,
\* and over the custom provider
Web3Instances == {"base", "custom"}

\* the instance createFireblocksProvider is given, which the RPC proxy uses
ProxyWeb3 == "base"

\* the instance initWeb3Instance returns, which setupDefaultAccount sets up
ReturnedWeb3 == "custom"

NoWeb3 == [i \in Web3Instances |-> Null]

\* what getDepositAddresses may resolve to
DepositAddressLists == {<<>>, <<"0xVaultFirst", "0xVaultSecond">>}

\* 10^18: one ether in wei, one token of 18 decimals in its smallest unit
OneEther == <<1>> \o Zeros(18)

\* what the RPC node may answer: the chain id, the gas price in wei (50
\* gwei), the balance in wei of the default account, and for the token
\* contract the gas estimate, decimals() and balanceOf(default account)
ChainIds == {137}
GasPrices == {<<5, 0>> \o Zeros(9)}
NativeBalances == {<<0>>, OneEther}
GasEstimates == {50000}
TokenDecimals == {18}
TokenBalances == {OneEther}

RecipientAddresses == {"0xRecipient", "recipient"}

\* REGEX.ETH_ADDRESS.test(address), on the addresses of the model
IsEthereumAddress(address) == address \in {"0xRecipient", "0xToken"}

\* the protocols validateRpcUrl accepts, on the URLs of the model
RpcUrls == {"https://node", "ftp://node"}
IsRpcUrl(url) == url \in {"https://node"}

\* web3.utils.toBN("0x00")
ZeroWei == <<0>>

NoData == [method |-> Undefined, recipient |-> Undefined, amount |-> ZeroWei]

NoTxData ==
    [to |-> Undefined, value |-> ZeroWei, data |-> NoData, gasPrice |-> ZeroWei,
     gasLimit |-> 0]

\* new Transaction({...txData, nonce}, {common})
Transaction(txData, nonce) ==
    [nonce |-> nonce, gasPrice |-> txData.gasPrice, gasLimit |-> txData.gasLimit,
     to |-> txData.to, value |-> txData.value, data |-> txData.data]

NoTransaction == Transaction(NoTxData, 0)

\* tx.getMessageToSign().toString("hex"): the digest of the transaction
\* under the chain parameters, taken as collision-free
GetMessageToSign(tx, chainId) == [digestOf |-> tx, chainId |-> chainId]

NoContent == GetMessageToSign(NoTransaction, 0)

NoSigned == [tx |-> NoTransaction, r |-> Undefined, s |-> Undefined, v |-> 0]

CreateSignedTransaction_LegacyV(originalTx, signature, chainId) ==
    [tx |-> [nonce |-> originalTx.nonce, gasPrice |-> originalTx.gasPrice,
             gasLimit |-> originalTx.gasLimit, to |-> originalTx.to,
             value |-> originalTx.value, data |-> originalTx.data],
     r |-> signature.r, s |-> signature.s,
     v |-> signature.v + 27]

\* the signed transaction; its serialization is taken as one to one
CreateSignedTransaction(originalTx, signature, chainId) ==
    [tx |-> [nonce |-> originalTx.nonce, gasPrice |-> originalTx.gasPrice,
             gasLimit |-> originalTx.gasLimit, to |-> originalTx.to,
             value |-> originalTx.value, data |-> originalTx.data],
     r |-> signature.r, s |-> signature.s,
     v |-> chainId * 2 + (signature.v + 35)]

\* an error that is no TransactionError
OtherError(name, operation) ==
    [NoError EXCEPT !.name = name, !.context = [NoContext EXCEPT !.operation = operation]]

\* a payload without an amount; elsewhere an amount that is not computed yet
NoAmount == Undefined

\* a createTransaction payload
RawPayload(assetId, vaultAccountId, content) ==
    [operation |-> "RAW", assetId |-> assetId, source |-> vaultAccountId,
     destination |-> Undefined, amount |-> NoAmount, content |-> content]

\* a createTransaction call the service received, with the id it answered
\* (Undefined for a call it rejected)
Created(payload, id) == [payload |-> payload, id |-> id]

IdleSign ==
    [pc |-> "idle", txData |-> NoTxData, chainId |-> 0, nonce |-> 0,
     tx |-> NoTransaction, content |-> NoContent, txId |-> Undefined,
     signed |-> NoSigned, error |-> NoError]

\* a balance that has not been read yet (no number has no digits)
NoBalance == <<>>

IdleTransfer ==
    [pc |-> "idle", sourceVaultAccountId |-> 0, assetIdentifier |-> Undefined,
     assetSymbol |-> Undefined, ethereumProviderUrl |-> Undefined,
     recipientAddress |-> Undefined, transferAmount |-> 0,
     erc20ContractAddress |-> Undefined, existingTransactionId |-> Undefined,
     destinationVault |-> 0, route |-> Undefined, balance |-> NoBalance,
     amount |-> NoAmount, decimals |-> 0, gasPrice |-> ZeroWei, error |-> NoError]

\* calls counts the requests the node has answered or refused
NoRpcCalls == [calls |-> 0, nonceQueries |-> <<>>, broadcasts |-> <<>>]

\* the RPC node settles one more request
RpcCall == rpc' = [rpc EXCEPT !.calls = @ + 1]

\* ------------------------------------------------------------------------
\* signTransactionViaFireblocks, called by the RPC proxy's eth_signTransaction
\* ------------------------------------------------------------------------
\* eth_signTransaction reaches the proxy: web3.eth.getChainId() is awaited
SignStart(txData) == [IdleSign EXCEPT !.pc = "getChainId", !.txData = txData]

RethrowSign(error) == sign' = [sign EXCEPT !.pc = "threw", !.error = error]

\* getChainId settles; on success the nonce is asked for the default account
\* of the proxy's Web3 instance
SignGetChainId ==
    /\ sign.pc = "getChainId"
    /\ \/ /\ \E c \in ChainIds :
                sign' = [sign EXCEPT !.pc = "getTransactionCount", !.chainId = c]
          /\ rpc' = [rpc EXCEPT !.calls = @ + 1,
                                !.nonceQueries = Append(@, web3[ProxyWeb3])]
       \/ /\ RethrowSign(OtherError("Error", "getChainId"))
          /\ rpc' = [rpc EXCEPT !.calls = @ + 1]
    /\ UNCHANGED <<now, poll, untilSuccess, fireblocks, web3, transfer, btc, select, pollAll, resume, legacy>>

HasExisting_Never(existingTransactionId) == FALSE

\* if (existingTransactionId)
HasExisting(existingTransactionId) == existingTransactionId # Undefined

SignGetTransactionCount_DigestBeforeNonce ==
    /\ sign.pc = "getTransactionCount"
    /\ \/ \E n \in 0..MaxNonce :
             sign' = [sign EXCEPT
                        !.pc = IF HasExisting(transfer.existingTransactionId)
                               THEN "resume" ELSE "create",
                        !.nonce = n, !.tx = Transaction(sign.txData, n),
                        !.content = GetMessageToSign(Transaction(sign.txData, 0),
                                                     sign.chainId)]
       \/ RethrowSign(OtherError("Error", "getTransactionCount"))
    /\ RpcCall
    /\ UNCHANGED <<now, poll, untilSuccess, fireblocks, web3, transfer, btc, select, pollAll, resume, legacy>>

\* getTransactionCount settles (for an address that is not set, as the
\* library decides); on success the transaction and its digest are built and
\* createRawTransaction awaits getTransactionById or createTransaction
SignGetTransactionCount ==
    /\ sign.pc = "getTransactionCount"
    /\ \/ \E n \in 0..MaxNonce :
             LET tx == Transaction(sign.txData, n) IN
             sign' = [sign EXCEPT
                        !.pc = IF HasExisting(transfer.existingTransactionId)
                               THEN "resume" ELSE "create",
                        !.nonce = n, !.tx = tx,
                        !.content = GetMessageToSign(tx, sign.chainId)]
       \/ RethrowSign(OtherError("Error", "getTransactionCount"))
    /\ RpcCall
    /\ UNCHANGED <<now, poll, untilSuccess, fireblocks, web3, transfer, btc, select, pollAll, resume, legacy>>

\* pollTransactionUntilSuccess(fireblocksClient, txId): no config, so the
\* defaults of POLLING
StartUntilSuccess(txId) ==
    /\ untilSuccess' = [IdleUntilSuccess EXCEPT !.pc = "awaitPoll"]
    /\ poll' = [poll EXCEPT ![1] = StartPoll(txId, INTERVAL_MS, TIMEOUT_MS, now)]

\* resume path of createRawTransaction: getTransactionById(existing)
\* settles; the content just computed is not sent anywhere. The existing
\* request signs the digest an earlier run computed: at best the same
\* transaction, with the nonce the account had then
SignResume ==
    /\ sign.pc = "resume"
    /\ \/ /\ \E info \in Snapshots(transfer.existingTransactionId) :
                /\ sign' = [sign EXCEPT !.pc = "poll", !.txId = info.id]
                /\ StartUntilSuccess(info.id)
          /\ \E earlierNonce \in 0..MaxNonce :
                fireblocks' = [fireblocks EXCEPT
                    !.gets[transfer.existingTransactionId] = @ + 1,
                    !.existing = Append(@,
                        [id |-> transfer.existingTransactionId,
                         content |-> GetMessageToSign(
                                        Transaction(sign.txData, earlierNonce),
                                        sign.chainId)])]
       \/ /\ RethrowSign(OtherError("Error", "getTransactionById"))
          /\ fireblocks' = [fireblocks EXCEPT
                               !.gets[transfer.existingTransactionId] = @ + 1]
          /\ UNCHANGED <<poll, untilSuccess>>
    /\ UNCHANGED <<now, web3, transfer, rpc, btc, select, pollAll, resume, legacy>>

\* create path of createRawTransaction: createTransaction of the RAW request
\* settles; the service names the new transaction
SignCreate ==
    /\ sign.pc = "create"
    /\ LET payload == RawPayload(transfer.assetIdentifier,
                                 transfer.sourceVaultAccountId, sign.content) IN
       \/ /\ \E id \in TxIds :
                /\ fireblocks' = [fireblocks EXCEPT
                                    !.created = Append(@, Created(payload, id))]
                /\ sign' = [sign EXCEPT !.pc = "poll", !.txId = id]
                /\ StartUntilSuccess(id)
       \/ /\ fireblocks' = [fireblocks EXCEPT
                               !.created = Append(@, Created(payload, Undefined))]
          /\ RethrowSign(OtherError("Error", "createTransaction"))
          /\ UNCHANGED <<poll, untilSuccess>>
    /\ UNCHANGED <<now, web3, transfer, rpc, btc, select, pollAll, resume, legacy>>

HasSignature_PresentOnly(txInfo) == txInfo.signedMessages.present

\* txInfo.signedMessages && txInfo.signedMessages.length !== 0
HasSignature(txInfo) ==
    /\ txInfo.signedMessages.present
    /\ Len(txInfo.signedMessages.list) # 0

\* pollTransactionUntilSuccess settled: its error propagates; a snapshot
\* without a signature is an error; else the signed transaction is built
SignAfterPoll ==
    /\ sign.pc = "poll"
    /\ untilSuccess.pc \in {"returned", "threw"}
    /\ sign' =
         IF untilSuccess.pc = "threw"
         THEN [sign EXCEPT !.pc = "threw", !.error = untilSuccess.error]
         ELSE IF ~HasSignature(untilSuccess.transactionInfo)
              THEN [sign EXCEPT !.pc = "threw",
                                !.error = TransactionError(sign.txId, "COMPLETED", NoContext)]
              ELSE IF Len(untilSuccess.transactionInfo.signedMessages.list) = 0
                   THEN \* signedMessages[0] of an empty list has no .signature
                        [sign EXCEPT !.pc = "threw",
                                     !.error = OtherError("TypeError", "signedMessages[0]")]
                   ELSE [sign EXCEPT !.pc = "returned",
                            !.signed = CreateSignedTransaction(sign.tx,
                                untilSuccess.transactionInfo.signedMessages.list[1].signature,
                                sign.chainId)]
    /\ UNCHANGED <<now, poll, untilSuccess, fireblocks, web3, transfer, rpc, btc, select, pollAll, resume, legacy>>

SignStep ==
    \/ SignGetChainId
    \/ SignGetTransactionCount
    \/ SignResume
    \/ SignCreate
    \/ SignAfterPoll

\* ------------------------------------------------------------------------
\* transfer, initWeb3Instance and the three transfer handlers
\* ------------------------------------------------------------------------
Throw(error) == transfer' = [transfer EXCEPT !.pc = "threw", !.error = error]

\* VALIDATION.MIN_TRANSACTION_AMOUNT, 0.000001
MIN_TRANSACTION_AMOUNT == Decimal(FALSE, <<0>>, <<0, 0, 0, 0, 0, 1>>)

\* validateAmount does not throw
IsValidAmount(amount) ==
    /\ ~amount.negative
    /\ ~(~IsZeroAmount(amount) /\ DecimalLess(amount, MIN_TRANSACTION_AMOUNT))

\* validateVaultId, validateAssetId and validateAmount of transfer, then
\* validateVaultId, validateAssetId and validateRpcUrl of initWeb3Instance,
\* on the inputs of the model (integer vault ids)
ValidTransferParams(t) ==
    /\ t.sourceVaultAccountId >= 0
    /\ t.assetIdentifier # ""
    /\ IsValidAmount(t.transferAmount)
    /\ IsRpcUrl(t.ethereumProviderUrl)

\* transfer up to its first await: the validations, the two Web3 instances
\* and the proxy, then getDepositAddresses of setupDefaultAccount
TransferValidate ==
    /\ transfer.pc = "validate"
    /\ IF ValidTransferParams(transfer)
       THEN transfer' = [transfer EXCEPT !.pc = "getDepositAddresses"]
       ELSE Throw(OtherError("ValidationError", "transfer"))
    /\ UNCHANGED <<now, poll, untilSuccess, fireblocks, web3, sign, rpc, btc, select, pollAll, resume, legacy>>

\* setupDefaultAccount: getDepositAddresses settles; the first address
\* becomes the default account of the instance that is returned
SetupDefaultAccount ==
    /\ transfer.pc = "getDepositAddresses"
    /\ fireblocks' = [fireblocks EXCEPT !.depositAddressQueries = @ + 1]
    /\ \/ \E accountAddresses \in DepositAddressLists :
             IF Len(accountAddresses) = 0
             THEN /\ Throw(OtherError("NoAddressesError", "setupDefaultAccount"))
                  /\ UNCHANGED web3
             ELSE /\ web3' = [web3 EXCEPT ![ReturnedWeb3] = accountAddresses[1]]
                  /\ transfer' = [transfer EXCEPT !.pc = "setupGetBalance"]
       \/ /\ Throw(OtherError("Error", "getDepositAddresses"))
          /\ UNCHANGED web3
    /\ UNCHANGED <<now, poll, untilSuccess, sign, rpc, btc, select, pollAll, resume, legacy>>

Route_Erc20First(t) ==
    IF t.erc20ContractAddress # Undefined THEN "erc20"
    ELSE IF t.destinationVault > 0 THEN "internal"
    ELSE "native"

\* the routing of transfer
Route(t) ==
    IF t.destinationVault > 0 THEN "internal"
    ELSE IF t.erc20ContractAddress # Undefined THEN "erc20"
    ELSE "native"

\* getBalance of setupDefaultAccount settles, initWeb3Instance returns and
\* transfer routes; each handler runs to its first await
TransferRoute ==
    /\ transfer.pc = "setupGetBalance"
    /\ RpcCall
    /\ \/ LET r == Route(transfer) IN
          CASE r = "internal" ->
                 transfer' = [transfer EXCEPT
                                !.route = r,
                                !.amount = IF IsZeroAmount(transfer.transferAmount)
                                           THEN NoAmount ELSE transfer.transferAmount,
                                !.pc = IF IsZeroAmount(transfer.transferAmount)
                                       THEN "internalGetBalance" ELSE "internalCreate"]
            [] r = "erc20" ->
                 IF IsEthereumAddress(transfer.recipientAddress)
                 THEN transfer' = [transfer EXCEPT !.route = r, !.pc = "erc20Decimals"]
                 ELSE transfer' = [transfer EXCEPT !.route = r, !.pc = "threw",
                          !.error = OtherError("ValidationError", "handleErc20Transfer")]
            [] r = "native" ->
                 IF IsEthereumAddress(transfer.recipientAddress)
                 THEN transfer' = [transfer EXCEPT !.route = r, !.pc = "nativeGetBalance"]
                 ELSE transfer' = [transfer EXCEPT !.route = r, !.pc = "threw",
                          !.error = OtherError("ValidationError", "handleNativeTokenTransfer")]
       \/ Throw(OtherError("Error", "getBalance"))
    /\ UNCHANGED <<now, poll, untilSuccess, fireblocks, web3, sign, btc, select, pollAll, resume, legacy>>

\* handleNativeTokenTransfer: getBalance settles; a zero balance is an error
NativeGetBalance ==
    /\ transfer.pc = "nativeGetBalance"
    /\ RpcCall
    /\ \/ \E accountBalanceInWei \in NativeBalances :
             IF BigIsZero(accountBalanceInWei)
             THEN transfer' = [transfer EXCEPT !.pc = "threw",
                      !.balance = accountBalanceInWei,
                      !.error = OtherError("InsufficientBalanceError",
                                           "handleNativeTokenTransfer")]
             ELSE transfer' = [transfer EXCEPT !.pc = "nativeGetGasPrice",
                                               !.balance = accountBalanceInWei]
       \/ Throw(OtherError("Error", "getBalance"))
    /\ UNCHANGED <<now, poll, untilSuccess, fireblocks, web3, sign, btc, select, pollAll, resume, legacy>>

\* the transaction handleNativeTokenTransfer asks to have signed
NativeTxData(recipientAddress, transferAmountInWei, currentGasPrice) ==
    [to |-> recipientAddress, value |-> transferAmountInWei, data |-> NoData,
     gasPrice |-> currentGasPrice, gasLimit |-> SIMPLE_TRANSFER_LIMIT]

\* handleNativeTokenTransfer: getGasPrice settles; the amount is converted
\* to wei and must not exceed the balance; then web3.eth.signTransaction
\* sends eth_signTransaction to the proxy
NativeSign ==
    /\ transfer.pc = "nativeGetGasPrice"
    /\ RpcCall
    /\ \/ /\ \E currentGasPrice \in GasPrices :
                IF ToWeiThrows(transfer.transferAmount)
                THEN /\ Throw(OtherError("Error", "toWei"))
                     /\ UNCHANGED sign
                ELSE LET transferAmountInWei == ToWei(transfer.transferAmount) IN
                     IF BigGt(transferAmountInWei, transfer.balance)
                     THEN /\ transfer' = [transfer EXCEPT !.pc = "threw",
                                 !.gasPrice = currentGasPrice,
                                 !.amount = transferAmountInWei,
                                 !.error = OtherError("InsufficientBalanceError",
                                                      "handleNativeTokenTransfer")]
                          /\ UNCHANGED sign
                     ELSE /\ transfer' = [transfer EXCEPT !.pc = "signTransaction",
                                             !.gasPrice = currentGasPrice,
                                             !.amount = transferAmountInWei]
                          /\ sign' = SignStart(NativeTxData(transfer.recipientAddress,
                                                            transferAmountInWei,
                                                            currentGasPrice))
       \/ /\ Throw(OtherError("Error", "getGasPrice"))
          /\ UNCHANGED sign
    /\ UNCHANGED <<now, poll, untilSuccess, fireblocks, web3, btc, select, pollAll, resume, legacy>>

\* handleErc20Transfer: decimals() settles
Erc20Decimals ==
    /\ transfer.pc = "erc20Decimals"
    /\ RpcCall
    /\ \/ \E tokenDecimals \in TokenDecimals :
             transfer' = [transfer EXCEPT !.pc = "erc20BalanceOf",
                                          !.decimals = tokenDecimals]
       \/ Throw(OtherError("Error", "decimals"))
    /\ UNCHANGED <<now, poll, untilSuccess, fireblocks, web3, sign, btc, select, pollAll, resume, legacy>>

\* handleErc20Transfer: balanceOf(defaultAccount) settles; the amount is
\* converted to the token's smallest unit and must not exceed the balance
Erc20BalanceOf ==
    /\ transfer.pc = "erc20BalanceOf"
    /\ RpcCall
    /\ \/ \E accountBalanceInSmallestUnit \in TokenBalances :
             IF ToWeiThrows(transfer.transferAmount)
             THEN transfer' = [transfer EXCEPT !.pc = "threw",
                      !.balance = accountBalanceInSmallestUnit,
                      !.error = OtherError("Error", "toWei")]
             ELSE LET transferAmountInSmallestUnit ==
                          ConvertToSmallestTokenUnit(transfer.transferAmount,
                                                     transfer.decimals) IN
                  IF BigGt(transferAmountInSmallestUnit, accountBalanceInSmallestUnit)
                  THEN transfer' = [transfer EXCEPT !.pc = "threw",
                           !.balance = accountBalanceInSmallestUnit,
                           !.amount = transferAmountInSmallestUnit,
                           !.error = OtherError("InsufficientBalanceError",
                                                "handleErc20Transfer")]
                  ELSE transfer' = [transfer EXCEPT !.pc = "erc20GetGasPrice",
                           !.balance = accountBalanceInSmallestUnit,
                           !.amount = transferAmountInSmallestUnit]
       \/ Throw(OtherError("Error", "balanceOf"))
    /\ UNCHANGED <<now, poll, untilSuccess, fireblocks, web3, sign, btc, select, pollAll, resume, legacy>>

\* handleErc20Transfer: getGasPrice settles
Erc20GetGasPrice ==
    /\ transfer.pc = "erc20GetGasPrice"
    /\ RpcCall
    /\ \/ \E currentGasPrice \in GasPrices :
             transfer' = [transfer EXCEPT !.pc = "erc20EstimateGas",
                                          !.gasPrice = currentGasPrice]
       \/ Throw(OtherError("Error", "getGasPrice"))
    /\ UNCHANGED <<now, poll, untilSuccess, fireblocks, web3, sign, btc, select, pollAll, resume, legacy>>

\* Math.floor(estimatedGas * GAS.ESTIMATION_BUFFER), the buffer being 1.2
GasWithBuffer(estimatedGas) == (estimatedGas * 12) \div 10

\* the transaction handleErc20Transfer asks to have signed: the encoded call
\* transfer(recipientAddress, transferAmountInSmallestUnit) of the contract
Erc20TxData(contractAddress, recipientAddress, transferAmountInSmallestUnit, currentGasPrice, gasLimit) ==
    [to |-> contractAddress, value |-> ZeroWei,
     data |-> [method |-> "transfer", recipient |-> recipientAddress,
               amount |-> transferAmountInSmallestUnit],
     gasPrice |-> currentGasPrice, gasLimit |-> gasLimit]

\* handleErc20Transfer: estimateGas settles (estimateGasWithBuffer turns a
\* failure into GasEstimationError); the call is encoded and
\* web3.eth.signTransaction sends eth_signTransaction to the proxy
Erc20Sign ==
    /\ transfer.pc = "erc20EstimateGas"
    /\ RpcCall
    /\ \/ /\ \E estimatedGas \in GasEstimates :
                sign' = SignStart(Erc20TxData(transfer.erc20ContractAddress,
                                              transfer.recipientAddress,
                                              transfer.amount, transfer.gasPrice,
                                              GasWithBuffer(estimatedGas)))
          /\ transfer' = [transfer EXCEPT !.pc = "signTransaction"]
       \/ /\ Throw(OtherError("GasEstimationError", "estimateGasWithBuffer"))
          /\ UNCHANGED sign
    /\ UNCHANGED <<now, poll, untilSuccess, fireblocks, web3, btc, select, pollAll, resume, legacy>>

TransferAfterSign_SendsAnyway ==
    /\ transfer.pc = "signTransaction"
    /\ sign.pc \in {"returned", "threw"}
    /\ transfer' = [transfer EXCEPT !.pc = "sendSignedTransaction"]
    /\ UNCHANGED <<now, poll, untilSuccess, fireblocks, web3, sign, rpc, btc, select, pollAll, resume, legacy>>

\* eth_signTransaction settled: the proxy hands its error to the provider's
\* callback, which rejects web3.eth.signTransaction with it; on success
\* sendSignedTransaction is called with the signed transaction
TransferAfterSign ==
    /\ transfer.pc = "signTransaction"
    /\ sign.pc \in {"returned", "threw"}
    /\ IF sign.pc = "threw"
       THEN Throw(sign.error)
       ELSE transfer' = [transfer EXCEPT !.pc = "sendSignedTransaction"]
    /\ UNCHANGED <<now, poll, untilSuccess, fireblocks, web3, sign, rpc, btc, select, pollAll, resume, legacy>>

SendSignedTransaction_Retries ==
    /\ transfer.pc = "sendSignedTransaction"
    /\ rpc' = [rpc EXCEPT !.calls = @ + 1, !.broadcasts = Append(@, sign.signed)]
    /\ \/ transfer' = [transfer EXCEPT !.pc = "returned"]
       \/ UNCHANGED transfer
    /\ UNCHANGED <<now, poll, untilSuccess, fireblocks, web3, sign, btc, select, pollAll, resume, legacy>>

\* sendSignedTransaction settles: the node was sent the signed transaction
SendSignedTransaction ==
    /\ transfer.pc = "sendSignedTransaction"
    /\ rpc' = [rpc EXCEPT !.calls = @ + 1, !.broadcasts = Append(@, sign.signed)]
    /\ \/ transfer' = [transfer EXCEPT !.pc = "returned"]
       \/ Throw(OtherError("Error", "sendSignedTransaction"))
    /\ UNCHANGED <<now, poll, untilSuccess, fireblocks, web3, sign, btc, select, pollAll, resume, legacy>>

\* calculateMaxInternalTransferAmount: the first getBalance settles
InternalGetBalance ==
    /\ transfer.pc = "internalGetBalance"
    /\ RpcCall
    /\ \/ \E maxSpendableInWei \in NativeBalances :
             transfer' = [transfer EXCEPT
                            !.balance = maxSpendableInWei,
                            !.pc = IF transfer.assetSymbol = "ETH"
                                   THEN "internalGetGasPrice"
                                   ELSE "internalGetBalanceAgain"]
       \/ Throw(OtherError("Error", "getBalance"))
    /\ UNCHANGED <<now, poll, untilSuccess, fireblocks, web3, sign, btc, select, pollAll, resume, legacy>>

\* calculateMaxInternalTransferAmount, assetId "ETH": getGasPrice settles;
\* the balance less the gas fee of a simple transfer, when it is not
\* negative, is returned as a number of ether
InternalGetGasPrice ==
    /\ transfer.pc = "internalGetGasPrice"
    /\ RpcCall
    /\ \/ \E gasPrice \in GasPrices :
             LET gasFee == BigMul(gasPrice, SIMPLE_TRANSFER_LIMIT)
                 amountInWei == BigSub(transfer.balance, gasFee) IN
             IF amountInWei.negative
             THEN transfer' = [transfer EXCEPT !.pc = "threw", !.gasPrice = gasPrice,
                      !.error = OtherError("InsufficientBalanceError",
                                           "calculateMaxInternalTransferAmount")]
             ELSE transfer' = [transfer EXCEPT !.pc = "internalCreate",
                                  !.gasPrice = gasPrice,
                                  !.amount = FromWei(amountInWei.magnitude)]
       \/ Throw(OtherError("Error", "getGasPrice"))
    /\ UNCHANGED <<now, poll, untilSuccess, fireblocks, web3, sign, btc, select, pollAll, resume, legacy>>

\* calculateMaxInternalTransferAmount, other assets: the second getBalance
\* settles and Number(balance), the balance of the account in wei, is returned
InternalGetBalanceAgain ==
    /\ transfer.pc = "internalGetBalanceAgain"
    /\ RpcCall
    /\ \/ \E balance \in NativeBalances :
             transfer' = [transfer EXCEPT !.pc = "internalCreate",
                                          !.balance = balance,
                                          !.amount = Decimal(FALSE, balance, <<>>)]
       \/ Throw(OtherError("Error", "getBalance"))
    /\ UNCHANGED <<now, poll, untilSuccess, fireblocks, web3, sign, btc, select, pollAll, resume, legacy>>

\* the createTransaction payload of performInternalTransfer; amount is
\* String(amount)
InternalPayload(assetId, amount, sourceVaultId, destinationVaultId) ==
    [operation |-> Undefined, assetId |-> assetId, source |-> sourceVaultId,
     destination |-> destinationVaultId, amount |-> amount, content |-> NoContent]

\* performInternalTransfer: createTransaction of the ledger transfer settles
\* and its result is returned
InternalCreate ==
    /\ transfer.pc = "internalCreate"
    /\ LET payload == InternalPayload(transfer.assetSymbol, transfer.amount,
                                      transfer.sourceVaultAccountId,
                                      transfer.destinationVault) IN
       \/ /\ \E id \in TxIds :
                fireblocks' = [fireblocks EXCEPT
                                 !.created = Append(@, Created(payload, id))]
          /\ transfer' = [transfer EXCEPT !.pc = "returned"]
       \/ /\ fireblocks' = [fireblocks EXCEPT
                               !.created = Append(@, Created(payload, Undefined))]
          /\ Throw(OtherError("Error", "createTransaction"))
    /\ UNCHANGED <<now, poll, untilSuccess, web3, sign, rpc, btc, select, pollAll, resume, legacy>>

TransferStep ==
    \/ TransferValidate
    \/ SetupDefaultAccount
    \/ TransferRoute
    \/ NativeGetBalance
    \/ NativeSign
    \/ Erc20Decimals
    \/ Erc20BalanceOf
    \/ Erc20GetGasPrice
    \/ Erc20Sign
    \/ TransferAfterSign
    \/ SendSignedTransaction
    \/ InternalGetBalance
    \/ InternalGetGasPrice
    \/ InternalGetBalanceAgain
    \/ InternalCreate

\* ------------------------------------------------------------------------
\* signBtcTransaction
\* ------------------------------------------------------------------------
\* VALIDATION.MAX_BTC_DESTINATIONS
MAX_BTC_DESTINATIONS == 100

\* A string that is parsed is the sequence of its characters; the empty
\* sequence stands for the empty string and for a value that is missing,
\* which the code tells apart nowhere (both are falsy).
DigitChars == <<"0", "1", "2", "3", "4", "5", "6", "7", "8", "9">>

IsDigitChar(c) == \E d \in 1..10 : DigitChars[d] = c

DigitValue(c) == (CHOOSE d \in 1..10 : DigitChars[d] = c) - 1

\* the longest prefix of s made of digits, as digits
RECURSIVE LeadingDigits(_)
LeadingDigits(s) ==
    IF s # <<>> /\ IsDigitChar(s[1])
    THEN <<DigitValue(s[1])>> \o LeadingDigits(Tail(s))
    ELSE <<>>

RECURSIVE SkipSpaces(_)
SkipSpaces(s) == IF s # <<>> /\ s[1] = " " THEN SkipSpaces(Tail(s)) ELSE s

\* what is not a number
NaN == Decimal(FALSE, <<>>, <<>>)

\* isNaN(amount)
IsNaN(amount) == amount.whole = <<>>

\* parseFloat(s), without exponents: leading blanks are skipped, then a
\* sign, digits, a point and digits are read as far as they go; what
\* follows is ignored, and without a digit the result is NaN
ParseFloat(s) ==
    LET t == SkipSpaces(s)
        signed == t # <<>> /\ t[1] \in {"-", "+"}
        negative == t # <<>> /\ t[1] = "-"
        u == IF signed THEN Tail(t) ELSE t
        whole == LeadingDigits(u)
        afterWhole == SubSeq(u, Len(whole) + 1, Len(u))
        frac == IF afterWhole # <<>> /\ afterWhole[1] = "."
                THEN LeadingDigits(Tail(afterWhole)) ELSE <<>>
    IN IF whole = <<>> /\ frac = <<>>
       THEN NaN
       ELSE Decimal(negative,
                    IF whole = <<>> THEN <<0>> ELSE StripZeros(whole),
                    StripTrailingZeros(frac))

\* !(isNaN(amount) || amount <= 0)
IsPositive(amount) ==
    /\ ~IsNaN(amount)
    /\ ~amount.negative
    /\ ~(amount.whole = <<0>> /\ amount.frac = <<>>)

\* no field is at fault
NoField == "none"

\* the check validateDestinations makes of one destination: the field at
\* fault, if any
DestinationError(dest) ==
    IF dest.vaultid = "" THEN "destinations[].vaultid"
    ELSE IF dest.amount = <<>> THEN "destinations[].amount"
    ELSE IF ~IsPositive(ParseFloat(dest.amount)) THEN "destinations[].amount"
    ELSE NoField

\* forEach: the first element at fault raises
RECURSIVE FirstDestinationError(_)
FirstDestinationError(destinations) ==
    IF destinations = <<>> THEN NoField
    ELSE IF DestinationError(Head(destinations)) # NoField
         THEN DestinationError(Head(destinations))
         ELSE FirstDestinationError(Tail(destinations))

\* validateDestinations: the field of the ValidationError it raises, if any
ValidateDestinations(destinations) ==
    IF Len(destinations) = 0 THEN "destinations"
    ELSE IF Len(destinations) > MAX_BTC_DESTINATIONS THEN "destinations"
    ELSE FirstDestinationError(destinations)

\* the check validateUTXOs makes of one UTXO
UTXOError(utxo) ==
    IF utxo.txHash = "" THEN "selectedUTXOs[].txHash"
    ELSE IF utxo.indexMissing THEN "selectedUTXOs[].index"
    ELSE IF utxo.index < 0 THEN "selectedUTXOs[].index"
    ELSE NoField

\* validateUTXOs: an empty array is valid; else the first UTXO at fault raises
RECURSIVE ValidateUTXOs(_)
ValidateUTXOs(utxos) ==
    IF utxos = <<>> THEN NoField
    ELSE IF UTXOError(Head(utxos)) # NoField THEN UTXOError(Head(utxos))
         ELSE ValidateUTXOs(Tail(utxos))

\* validateVaultId, on the vault ids of the model
IsValidVaultId(vaultId) == vaultId \in {"0"}

\* validateAssetId, on the asset ids of the model
IsValidAssetId(assetId) == assetId \in {"BTC"}

\* selectedUTXOs that were not passed
NoUTXOs == [given |-> FALSE, list |-> <<>>]

ValidateBtcParams_DestinationsOnly(params) ==
    IF ~IsValidVaultId(params.vaultAccountId) THEN "vaultAccountId"
    ELSE IF ~IsValidAssetId(params.assetId) THEN "assetId"
    ELSE ValidateDestinations(params.destinations)

\* the validations of signBtcTransaction, in their order: the field of the
\* ValidationError that is raised, if any
ValidateBtcParams(params) ==
    IF ~IsValidVaultId(params.vaultAccountId) THEN "vaultAccountId"
    ELSE IF ~IsValidAssetId(params.assetId) THEN "assetId"
    ELSE IF ValidateDestinations(params.destinations) # NoField
         THEN ValidateDestinations(params.destinations)
    ELSE IF params.selectedUTXOs.given
         THEN ValidateUTXOs(params.selectedUTXOs.list)
    ELSE NoField

\* prepareDestinations
PrepareDestinations(destinations) ==
    [i \in 1..Len(destinations) |->
        [destination |-> [type |-> "VAULT_ACCOUNT", id |-> destinations[i].vaultid],
         amount |-> destinations[i].amount]]

\* extraParameters without inputsSelection: {}
NoExtraParameters == [inputsSelection |-> FALSE, inputsToSpend |-> <<>>]

PrepareExtraParameters_GivenOnly(selectedUTXOs) ==
    IF ~selectedUTXOs.given
    THEN NoExtraParameters
    ELSE [inputsSelection |-> TRUE,
          inputsToSpend |-> [i \in 1..Len(selectedUTXOs.list) |->
                               [txHash |-> selectedUTXOs.list[i].txHash,
                                index |-> selectedUTXOs.list[i].index]]]

\* prepareExtraParameters
PrepareExtraParameters(selectedUTXOs) ==
    IF ~selectedUTXOs.given \/ Len(selectedUTXOs.list) = 0
    THEN NoExtraParameters
    ELSE [inputsSelection |-> TRUE,
          inputsToSpend |-> [i \in 1..Len(selectedUTXOs.list) |->
                               [txHash |-> selectedUTXOs.list[i].txHash,
                                index |-> selectedUTXOs.list[i].index]]]

\* txRequest of signBtcTransaction (without its note)
BtcTxRequest(params) ==
    [operation |-> "TRANSFER", assetId |-> params.assetId,
     source |-> [type |-> "VAULT_ACCOUNT", id |-> params.vaultAccountId],
     destinations |-> PrepareDestinations(params.destinations),
     extraParameters |-> PrepareExtraParameters(params.selectedUTXOs)]

NoBtcParams ==
    [vaultAccountId |-> "", assetId |-> "", destinations |-> <<>>,
     selectedUTXOs |-> NoUTXOs]

IdleBtc ==
    [pc |-> "idle", params |-> NoBtcParams, txId |-> Undefined,
     transactionInfo |-> NoSnapshot, error |-> NoError]

BtcThrow(error) == btc' = [btc EXCEPT !.pc = "threw", !.error = error]

\* signBtcTransaction up to its first await: the validations, then the
\* request is built and createTransaction issued
BtcValidate ==
    /\ btc.pc = "validate"
    /\ IF ValidateBtcParams(btc.params) # NoField
       THEN BtcThrow(OtherError("ValidationError", ValidateBtcParams(btc.params)))
       ELSE btc' = [btc EXCEPT !.pc = "createTransaction"]
    /\ UNCHANGED <<now, poll, untilSuccess, fireblocks, web3, sign, transfer, rpc, select, pollAll, resume, legacy>>

\* createTransaction settles; pollTransactionUntilSuccess is called with the
\* id that was answered
BtcCreate ==
    /\ btc.pc = "createTransaction"
    /\ LET txRequest == BtcTxRequest(btc.params) IN
       \/ /\ \E id \in TxIds :
                /\ fireblocks' = [fireblocks EXCEPT
                                    !.created = Append(@, Created(txRequest, id))]
                /\ btc' = [btc EXCEPT !.pc = "poll", !.txId = id]
                /\ StartUntilSuccess(id)
       \/ /\ fireblocks' = [fireblocks EXCEPT
                               !.created = Append(@, Created(txRequest, Undefined))]
          /\ BtcThrow(OtherError("Error", "createTransaction"))
          /\ UNCHANGED <<poll, untilSuccess>>
    /\ UNCHANGED <<now, web3, sign, transfer, rpc, select, pollAll, resume, legacy>>

BtcAfterPoll_WrapsError ==
    /\ btc.pc = "poll"
    /\ untilSuccess.pc \in {"returned", "threw"}
    /\ btc' = IF untilSuccess.pc = "threw"
              THEN [btc EXCEPT !.pc = "threw",
                               !.error = OtherError("Error", "signBtcTransaction")]
              ELSE [btc EXCEPT !.pc = "returned",
                               !.transactionInfo = untilSuccess.transactionInfo]
    /\ UNCHANGED <<now, poll, untilSuccess, fireblocks, web3, sign, transfer, rpc, select, pollAll, resume, legacy>>

\* pollTransactionUntilSuccess settled: its snapshot is returned, its error
\* thrown again
BtcAfterPoll ==
    /\ btc.pc = "poll"
    /\ untilSuccess.pc \in {"returned", "threw"}
    /\ btc' = IF untilSuccess.pc = "threw"
              THEN [btc EXCEPT !.pc = "threw", !.error = untilSuccess.error]
              ELSE [btc EXCEPT !.pc = "returned",
                               !.transactionInfo = untilSuccess.transactionInfo]
    /\ UNCHANGED <<now, poll, untilSuccess, fireblocks, web3, sign, transfer, rpc, select, pollAll, resume, legacy>>

BtcStep ==
    \/ BtcValidate
    \/ BtcCreate
    \/ BtcAfterPoll

\* ------------------------------------------------------------------------
\* selectUTXOsForAmount
\* ------------------------------------------------------------------------
\* the number a numeral without a fraction stands for, from its digits
RECURSIVE NumberOfDigits(_)
NumberOfDigits(ds) ==
    IF ds = <<>> THEN 0 ELSE 10 * NumberOfDigits(SubSeq(ds, 1, Len(ds) - 1)) + ds[Len(ds)]

\* utxo.amount ? parseFloat(utxo.amount) : 0, for amounts that are whole
\* numbers (the empty sequence is an amount that is missing or empty)
AmountOf(utxo) ==
    IF utxo.amount = <<>> THEN 0 ELSE NumberOfDigits(ParseFloat(utxo.amount).whole)

InsertByAmount_Ascending(sorted, utxo) ==
    LET before == {i \in 1..Len(sorted) : AmountOf(sorted[i]) <= AmountOf(utxo)}
        n == Cardinality(before)
    IN SubSeq(sorted, 1, n) \o <<utxo>> \o SubSeq(sorted, n + 1, Len(sorted))

InsertByAmount_BeforeEqual(sorted, utxo) ==
    LET before == {i \in 1..Len(sorted) : AmountOf(sorted[i]) > AmountOf(utxo)}
        n == Cardinality(before)
    IN SubSeq(sorted, 1, n) \o <<utxo>> \o SubSeq(sorted, n + 1, Len(sorted))

\* a UTXO takes its place in a list ordered by amount descending, after
\* those of the same amount (the sort is stable)
InsertByAmount(sorted, utxo) ==
    LET before == {i \in 1..Len(sorted) : AmountOf(sorted[i]) >= AmountOf(utxo)}
        n == Cardinality(before)
    IN SubSeq(sorted, 1, n) \o <<utxo>> \o SubSeq(sorted, n + 1, Len(sorted))

\* [...utxos].sort((a, b) => amountB - amountA)
RECURSIVE SortByAmount(_)
SortByAmount(utxos) ==
    IF utxos = <<>> THEN <<>>
    ELSE InsertByAmount(SortByAmount(SubSeq(utxos, 1, Len(utxos) - 1)),
                        utxos[Len(utxos)])

\* the for loop: UTXOs are taken in order until the total reaches the target
RECURSIVE Accumulate(_, _, _, _)
Accumulate(sortedUTXOs, selected, currentTotal, targetAmount) ==
    IF sortedUTXOs = <<>> \/ currentTotal >= targetAmount
    THEN [selected |-> selected, currentTotal |-> currentTotal]
    ELSE Accumulate(Tail(sortedUTXOs), Append(selected, Head(sortedUTXOs)),
                    currentTotal + AmountOf(Head(sortedUTXOs)), targetAmount)

NoSelectError == [name |-> "none", field |-> Undefined, required |-> 0, available |-> 0]

InsufficientUTXOs_Swapped(targetAmount, currentTotal) ==
    [name |-> "ValidationError", field |-> "targetAmount",
     required |-> currentTotal, available |-> targetAmount]

\* ValidationError("targetAmount", targetAmount, "Insufficient UTXOs.
\* Required: ${targetAmount}, Available: ${currentTotal}")
InsufficientUTXOs(targetAmount, currentTotal) ==
    [name |-> "ValidationError", field |-> "targetAmount",
     required |-> targetAmount, available |-> currentTotal]

\* given is the array as it was passed, utxos the array as it is
IdleSelect ==
    [pc |-> "idle", given |-> <<>>, utxos |-> <<>>, targetAmount |-> 0,
     selected |-> <<>>, error |-> NoSelectError]

\* selectUTXOsForAmount, which awaits nothing
SelectUTXOsForAmount ==
    /\ select.pc = "call"
    /\ LET sortedUTXOs == SortByAmount(select.utxos)
           loop == Accumulate(sortedUTXOs, <<>>, 0, select.targetAmount)
       IN select' =
            IF loop.currentTotal < select.targetAmount
            THEN [select EXCEPT !.pc = "threw",
                     !.error = InsufficientUTXOs(select.targetAmount, loop.currentTotal)]
            ELSE [select EXCEPT !.pc = "returned", !.selected = loop.selected]
    /\ UNCHANGED <<now, poll, untilSuccess, fireblocks, web3, sign, transfer, rpc, btc,
                   pollAll, resume, legacy>>

\* ------------------------------------------------------------------------
\* resumeTransaction
\* ------------------------------------------------------------------------
\* firstStatus is history: the status the fetch of resumeTransaction answered
IdleResume ==
    [pc |-> "idle", transactionId |-> Undefined, intervalMs |-> 0, timeoutMs |-> 0,
     result |-> NoResult, error |-> NoError, firstStatus |-> Undefined]

\* resumeTransaction up to its await of getTransactionById
ResumeTransaction(transactionId, intervalMs, timeoutMs) ==
    [IdleResume EXCEPT !.pc = "fetch", !.transactionId = transactionId,
                       !.intervalMs = intervalMs, !.timeoutMs = timeoutMs]

\* if (isTerminalStatus(txInfo.status))
AlreadyTerminal(status) == IsTerminalStatus(status)

\* getTransactionById resolves: a terminal transaction is returned as it is,
\* with cancelled false; any other is handed to pollTransaction
ResumeFetchOk ==
    /\ resume.pc = "fetch"
    /\ \E txInfo \in Snapshots(resume.transactionId) :
          IF AlreadyTerminal(txInfo.status)
          THEN /\ resume' = [resume EXCEPT !.pc = "returned",
                                 !.firstStatus = txInfo.status,
                                 !.result = [finalStatus |-> txInfo.status,
                                             transactionInfo |-> txInfo,
                                             cancelled |-> FALSE]]
               /\ UNCHANGED poll
          ELSE /\ resume' = [resume EXCEPT !.pc = "awaitPoll",
                                           !.firstStatus = txInfo.status]
               /\ poll' = [poll EXCEPT ![1] =
                             StartPoll(resume.transactionId, resume.intervalMs,
                                       resume.timeoutMs, now)]
    /\ CountGet(resume.transactionId)
    /\ UNCHANGED <<now, untilSuccess, web3, sign, transfer, rpc, btc, select, pollAll, legacy>>

\* getTransactionById rejects: nothing catches the error
ResumeFetchFail ==
    /\ resume.pc = "fetch"
    /\ resume' = [resume EXCEPT !.pc = "threw",
                                !.error = OtherError("Error", "getTransactionById")]
    /\ CountGet(resume.transactionId)
    /\ UNCHANGED <<now, poll, untilSuccess, web3, sign, transfer, rpc, btc, select, pollAll, legacy>>

\* return pollTransaction(...): its result or its error
ResumeAfterPoll ==
    /\ resume.pc = "awaitPoll"
    /\ poll[1].pc \in {"returned", "threw"}
    /\ resume' = IF poll[1].pc = "returned"
                 THEN [resume EXCEPT !.pc = "returned", !.result = poll[1].result]
                 ELSE [resume EXCEPT !.pc = "threw", !.error = poll[1].error]
    /\ UNCHANGED <<now, poll, untilSuccess, fireblocks, web3, sign, transfer, rpc, btc,
                   select, pollAll, legacy>>

ResumeStep ==
    \/ ResumeFetchOk
    \/ ResumeFetchFail
    \/ ResumeAfterPoll

\* ------------------------------------------------------------------------
\* Bitcoin/bitcoin_raw_signer.ts: the legacy signBtcTransaction
\* ------------------------------------------------------------------------
\* the pause between two polls of the legacy loop, in ms
LEGACY_PAUSE_MS == 1000

\* fetches counts the getTransactionById calls of the loop
IdleLegacy ==
    [pc |-> "idle", txId |-> Undefined, txStatus |-> Undefined, wakeAt |-> 0,
     fetches |-> 0]

\* the condition of the while loop
LegacyLoopContinues(txStatus) ==
    /\ txStatus # "COMPLETED"
    /\ txStatus # "FAILED"
    /\ txStatus # "BLOCKED"

\* the head of the while loop: the next getTransactionById, or the end
LegacyLoopHead(l) ==
    IF LegacyLoopContinues(l.txStatus) THEN [l EXCEPT !.pc = "fetch"]
    ELSE [l EXCEPT !.pc = "returned"]

\* createTransaction settles: its answer carries the id and the first status
LegacyCreate ==
    /\ legacy.pc = "create"
    /\ \/ \E id \in TxIds, status \in Statuses :
             legacy' = LegacyLoopHead([legacy EXCEPT !.txId = id, !.txStatus = status])
       \/ legacy' = [legacy EXCEPT !.pc = "threw"]
    /\ UNCHANGED <<now, poll, untilSuccess, fireblocks, web3, sign, transfer, rpc, btc, select, pollAll, resume>>

\* getTransactionById resolves: FAILED and BLOCKED return at once, any other
\* status goes to the pause
LegacyFetchOk ==
    /\ legacy.pc = "fetch"
    /\ \E info \in Snapshots(legacy.txId) :
          legacy' = IF info.status = "FAILED" \/ info.status = "BLOCKED"
                    THEN [legacy EXCEPT !.pc = "returned", !.txStatus = info.status,
                                        !.fetches = @ + 1]
                    ELSE [legacy EXCEPT !.pc = "sleeping", !.txStatus = info.status,
                                        !.fetches = @ + 1,
                                        !.wakeAt = now + LEGACY_PAUSE_MS]
    /\ CountGet(legacy.txId)
    /\ UNCHANGED <<now, poll, untilSuccess, web3, sign, transfer, rpc, btc, select, pollAll, resume>>

\* getTransactionById rejects: the error is logged and the pause follows
LegacyFetchFail ==
    /\ legacy.pc = "fetch"
    /\ legacy' = [legacy EXCEPT !.pc = "sleeping", !.fetches = @ + 1,
                                !.wakeAt = now + LEGACY_PAUSE_MS]
    /\ CountGet(legacy.txId)
    /\ UNCHANGED <<now, poll, untilSuccess, web3, sign, transfer, rpc, btc, select, pollAll, resume>>

\* the pause is over: the loop condition is tested again. The loop has no
\* bound of its own; the model follows it for MaxLegacyFetches fetches
LegacyWake ==
    /\ legacy.pc = "sleeping"
    /\ legacy.fetches < MaxLegacyFetches \/ ~LegacyLoopContinues(legacy.txStatus)
    /\ now' = legacy.wakeAt
    /\ legacy' = LegacyLoopHead(legacy)
    /\ UNCHANGED <<poll, untilSuccess, fireblocks, flowVarsOfLegacy>>

LegacyStep ==
    \/ LegacyCreate
    \/ LegacyFetchOk
    \/ LegacyFetchFail
    \/ LegacyWake

\* ------------------------------------------------------------------------
\* Spec: one call of transfer, with any parameters of the model
\* ------------------------------------------------------------------------
\* amounts: negative, zero (the full balance), below the minimum, one, two
TransferAmounts ==
    {Integer(-1), Integer(0), Decimal(FALSE, <<0>>, <<0, 0, 0, 0, 0, 0, 1>>),
     Integer(1), Integer(2)}

\* (assetSymbol is read by calculateMaxInternalTransferAmount only, so it
\* varies for internal transfers only)
AllTransferParams ==
    {[IdleTransfer EXCEPT !.pc = "validate",
                          !.sourceVaultAccountId = v, !.assetIdentifier = a,
                          !.assetSymbol = sym, !.ethereumProviderUrl = u,
                          !.recipientAddress = r, !.transferAmount = amt,
                          !.erc20ContractAddress = c, !.existingTransactionId = x,
                          !.destinationVault = d] :
        v \in {-1, 0}, a \in {"", "ETH_TEST3"},
        u \in RpcUrls, r \in RecipientAddresses, amt \in TransferAmounts,
        c \in {Undefined, "0xToken"}, x \in {Undefined, "tx2"},
        d \in {0, 1}, sym \in {"ETH", "USDC"}}

TransferParams ==
    {t \in AllTransferParams : t.destinationVault = 0 => t.assetSymbol = "ETH"}

Init ==
    /\ now = 0
    /\ poll = [s \in Slots |-> IdlePoll]
    /\ untilSuccess = IdleUntilSuccess
    /\ fireblocks = NoCalls
    /\ web3 = NoWeb3
    /\ sign = IdleSign
    /\ rpc = NoRpcCalls
    /\ select = IdleSelect
    /\ pollAll = IdlePollAll
    /\ legacy = IdleLegacy
    /\ btc = IdleBtc
    /\ resume = IdleResume
    /\ transfer \in TransferParams

Next ==
    \/ TransferStep
    \/ SignStep
    \/ \E s \in Slots : PollStep(s)
    \/ UntilSuccessResume

Spec == Init /\ [][Next]_vars

\* ------------------------------------------------------------------------
\* SignedTxSpec: the end of a native transfer, from the moment the poll of
\* its signing transaction has returned COMPLETED, on any chain of the model
\* ------------------------------------------------------------------------
\* chain ids: Ethereum, BNB Smart Chain, Polygon, Sepolia
SignedChainIds == {1, 56, 137, 11155111}

SignedTxInit ==
    \E transferAmount \in {Integer(0), Integer(1)}, currentGasPrice \in GasPrices,
       chainId \in SignedChainIds, nonce \in 0..MaxNonce, id \in TxIds :
    \E info \in {i \in Snapshots(id) : i.status = "COMPLETED"} :
       LET txData == NativeTxData("0xRecipient", ToWei(transferAmount), currentGasPrice)
           tx == Transaction(txData, nonce)
           content == GetMessageToSign(tx, chainId)
       IN
       /\ now = 0
       /\ poll = [s \in Slots |->
                    LoopHead([StartPoll(id, INTERVAL_MS, TIMEOUT_MS, 0) EXCEPT
                                 !.transactionInfo = info,
                                 !.currentStatus = info.status], 0)]
       /\ untilSuccess = [IdleUntilSuccess EXCEPT !.pc = "returned",
                                                  !.transactionInfo = info]
       /\ fireblocks = [NoCalls EXCEPT
                          !.depositAddressQueries = 1,
                          !.gets[id] = 1,
                          !.created = <<Created(RawPayload("ETH_TEST3", 0, content), id)>>]
       /\ web3 = [NoWeb3 EXCEPT ![ReturnedWeb3] = "0xVaultFirst"]
       /\ sign = [SignStart(txData) EXCEPT !.pc = "poll", !.chainId = chainId,
                                           !.nonce = nonce, !.tx = tx,
                                           !.content = content, !.txId = id]
       /\ transfer = [IdleTransfer EXCEPT
                         !.pc = "signTransaction", !.sourceVaultAccountId = 0,
                         !.assetIdentifier = "ETH_TEST3", !.assetSymbol = "ETH",
                         !.ethereumProviderUrl = "https://node",
                         !.recipientAddress = "0xRecipient",
                         !.transferAmount = transferAmount, !.route = "native",
                         !.balance = OneEther, !.amount = ToWei(transferAmount),
                         !.gasPrice = currentGasPrice]
       /\ rpc = [NoRpcCalls EXCEPT !.calls = 5, !.nonceQueries = <<Null>>]
       /\ select = IdleSelect
       /\ pollAll = IdlePollAll
       /\ legacy = IdleLegacy
       /\ btc = IdleBtc
       /\ resume = IdleResume

SignedTxNext ==
    \/ SignAfterPoll
    \/ TransferAfterSign
    \/ SendSignedTransaction

SignedTxSpec == SignedTxInit /\ [][SignedTxNext]_vars

\* ------------------------------------------------------------------------
\* ConvertSpec: the rest of an ERC-20 transfer from the moment decimals()
\* has answered, for tokens of any decimals of the model and amounts that
\* print with up to 22 decimals
\* ------------------------------------------------------------------------
ConvertDecimals == {0, 6, 8, 18}

\* amount.toString() of the amounts: 0, 0.1, 0.5, 1, 1.5, 0.000001,
\* 0.1234567, 0.123456789, 123.456789, 0.30000000000000004 (0.1 + 0.2),
\* 1.2100000000000002 (1.1 * 1.1), 0.0000030000000000000005 ((0.1 + 0.2) / 100000)
ConvertAmounts ==
    {Integer(0),
     Decimal(FALSE, <<0>>, <<1>>),
     Decimal(FALSE, <<0>>, <<5>>),
     Integer(1),
     Decimal(FALSE, <<1>>, <<5>>),
     Decimal(FALSE, <<0>>, <<0, 0, 0, 0, 0, 1>>),
     Decimal(FALSE, <<0>>, <<1, 2, 3, 4, 5, 6, 7>>),
     Decimal(FALSE, <<0>>, <<1, 2, 3, 4, 5, 6, 7, 8, 9>>),
     Decimal(FALSE, <<1, 2, 3>>, <<4, 5, 6, 7, 8, 9>>),
     Decimal(FALSE, <<0>>, <<3>> \o Zeros(15) \o <<4>>),
     Decimal(FALSE, <<1>>, <<2, 1>> \o Zeros(13) \o <<2>>),
     Decimal(FALSE, <<0>>, Zeros(5) \o <<3>> \o Zeros(15) \o <<5>>)}

ConvertInit ==
    \E amount \in ConvertAmounts, tokenDecimals \in ConvertDecimals :
       /\ now = 0
       /\ poll = [s \in Slots |-> IdlePoll]
       /\ untilSuccess = IdleUntilSuccess
       /\ fireblocks = [NoCalls EXCEPT !.depositAddressQueries = 1]
       /\ web3 = [NoWeb3 EXCEPT ![ReturnedWeb3] = "0xVaultFirst"]
       /\ sign = IdleSign
       /\ transfer = [IdleTransfer EXCEPT
                         !.pc = "erc20BalanceOf", !.sourceVaultAccountId = 0,
                         !.assetIdentifier = "ETH_TEST3", !.assetSymbol = "USDC",
                         !.ethereumProviderUrl = "https://node",
                         !.recipientAddress = "0xRecipient",
                         !.erc20ContractAddress = "0xToken",
                         !.transferAmount = amount, !.route = "erc20",
                         !.decimals = tokenDecimals]
       /\ rpc = [NoRpcCalls EXCEPT !.calls = 2]
       /\ select = IdleSelect
       /\ pollAll = IdlePollAll
       /\ legacy = IdleLegacy
       /\ btc = IdleBtc
       /\ resume = IdleResume

ConvertNext ==
    \/ Erc20BalanceOf
    \/ Erc20GetGasPrice
    \/ Erc20Sign

ConvertSpec == ConvertInit /\ [][ConvertNext]_vars

\* ------------------------------------------------------------------------
\* BtcSpec: one call of signBtcTransaction, with any parameters of the model
\* ------------------------------------------------------------------------
\* amount strings: "0.001", "" (or none), "0", "-1", "abc", "1a"
AmountStrings ==
    {<<"0", ".", "0", "0", "1">>, <<>>, <<"0">>, <<"-", "1">>,
     <<"a", "b", "c">>, <<"1", "a">>}

BtcDestinations == [vaultid : {"5", ""}, amount : AmountStrings]

ValidDestination == [vaultid |-> "5", amount |-> <<"0", ".", "0", "0", "1">>]

\* destination lists: none, one of any kind, a valid one followed by one of
\* any kind, and lists of 100 and of 101 valid destinations
DestinationLists ==
    {<<>>}
    \cup {<<d>> : d \in BtcDestinations}
    \cup {<<ValidDestination, d>> : d \in BtcDestinations}
    \cup {[i \in 1..n |-> ValidDestination] :
             n \in {MAX_BTC_DESTINATIONS, MAX_BTC_DESTINATIONS + 1}}

\* UTXOs: with or without a hash, with index -1, 0, 1 or none
UTXOs ==
    [txHash : {"abc", ""}, index : {-1, 0, 1}, indexMissing : {FALSE}]
    \cup [txHash : {"abc"}, index : {0}, indexMissing : {TRUE}]

\* selectedUTXOs: not passed, empty, one UTXO of any kind, or two valid ones
SelectedUTXOs ==
    {NoUTXOs, [given |-> TRUE, list |-> <<>>]}
    \cup {[given |-> TRUE, list |-> <<u>>] : u \in UTXOs}
    \cup {[given |-> TRUE,
           list |-> <<[txHash |-> "abc", index |-> 1, indexMissing |-> FALSE],
                      [txHash |-> "abc", index |-> 0, indexMissing |-> FALSE]>>]}

AllBtcParams ==
    [vaultAccountId : {"0", ""}, assetId : {"BTC", ""},
     destinations : DestinationLists, selectedUTXOs : SelectedUTXOs]

\* (the two lists are validated one after the other and independently, so
\* one of them varies at a time)
BtcParams ==
    {params \in AllBtcParams :
        \/ params.destinations = <<ValidDestination>>
        \/ params.selectedUTXOs = NoUTXOs}

BtcInit ==
    /\ now = 0
    /\ poll = [s \in Slots |-> IdlePoll]
    /\ untilSuccess = IdleUntilSuccess
    /\ fireblocks = NoCalls
    /\ web3 = NoWeb3
    /\ sign = IdleSign
    /\ transfer = IdleTransfer
    /\ rpc = NoRpcCalls
    /\ select = IdleSelect
    /\ pollAll = IdlePollAll
    /\ legacy = IdleLegacy
    /\ resume = IdleResume
    /\ \E params \in BtcParams :
          btc = [IdleBtc EXCEPT !.pc = "validate", !.params = params]

BtcNext ==
    \/ BtcStep
    \/ \E s \in Slots : PollStep(s)
    \/ UntilSuccessResume

BtcSpec == BtcInit /\ [][BtcNext]_vars

\* ------------------------------------------------------------------------
\* SelectSpec: one call of selectUTXOsForAmount, with any list of up to
\* MaxUTXOs UTXOs of the model and any target of the model
\* ------------------------------------------------------------------------
MaxUTXOs == 3

\* amount strings of UTXOs: none, "1", "2", "3", "5"
UTXOAmounts == {<<>>, <<"1">>, <<"2">>, <<"3">>, <<"5">>}

TargetAmounts == {0, 1, 5, 6, 11}

\* the UTXOs of a list are distinct outputs: here, of one transaction
AvailableUTXOs ==
    UNION {[1..n -> UTXOAmounts] : n \in 0..MaxUTXOs}

SelectInit ==
    /\ now = 0
    /\ poll = [s \in Slots |-> IdlePoll]
    /\ untilSuccess = IdleUntilSuccess
    /\ fireblocks = NoCalls
    /\ web3 = NoWeb3
    /\ sign = IdleSign
    /\ transfer = IdleTransfer
    /\ rpc = NoRpcCalls
    /\ btc = IdleBtc
    /\ resume = IdleResume
    /\ pollAll = IdlePollAll
    /\ legacy = IdleLegacy
    /\ \E amounts \in AvailableUTXOs, targetAmount \in TargetAmounts :
          LET utxos == [i \in 1..Len(amounts) |->
                          [txHash |-> "abc", index |-> i - 1, amount |-> amounts[i]]]
          IN select = [IdleSelect EXCEPT !.pc = "call", !.given = utxos,
                                         !.utxos = utxos,
                                         !.targetAmount = targetAmount]

SelectNext == SelectUTXOsForAmount

SelectSpec == SelectInit /\ [][SelectNext]_vars

\* ------------------------------------------------------------------------
\* PollAllSpec: one call of pollTransactions
\* ------------------------------------------------------------------------
TransactionIdLists ==
    {<<>>, <<"tx1">>, <<"tx1", "tx2">>, <<"tx2", "tx1">>, <<"tx1", "tx1">>}

PollAllConfigs ==
    {[intervalMs |-> 1, timeoutMs |-> 1], [intervalMs |-> 2, timeoutMs |-> 1]}

PollAllInit ==
    /\ now = 0
    /\ \E ids \in TransactionIdLists, config \in PollAllConfigs :
          /\ pollAll = PollTransactions(ids)
          /\ poll = [s \in Slots |->
                       IF s \in DOMAIN ids
                       THEN [StartPoll(ids[s], config.intervalMs, config.timeoutMs, 0)
                                EXCEPT !.observed = TRUE]
                       ELSE IdlePoll]
    /\ untilSuccess = IdleUntilSuccess
    /\ fireblocks = NoCalls
    /\ web3 = NoWeb3
    /\ sign = IdleSign
    /\ transfer = IdleTransfer
    /\ rpc = NoRpcCalls
    /\ select = IdleSelect
    /\ btc = IdleBtc
    /\ resume = IdleResume
    /\ legacy = IdleLegacy

PollAllNext ==
    \/ \E s \in Slots : PollTransactionsStep(s)
    \/ \E s \in Slots : PollTransactionsSettle(s)

PollAllSpec == PollAllInit /\ [][PollAllNext]_vars

\* ------------------------------------------------------------------------
\* NotifySpec: one call of pollTransaction with an onStatusChange callback
\* ------------------------------------------------------------------------
NotifyConfigs ==
    {[intervalMs |-> 1, timeoutMs |-> 1], [intervalMs |-> 1, timeoutMs |-> 2],
     [intervalMs |-> 2, timeoutMs |-> 1]}

NotifyInit ==
    /\ now = 0
    /\ \E id \in TxIds, config \in NotifyConfigs :
          poll = [s \in Slots |->
                     IF s = 1
                     THEN [StartPoll(id, config.intervalMs, config.timeoutMs, 0)
                              EXCEPT !.observed = TRUE, !.onStatusChange = TRUE]
                     ELSE IdlePoll]
    /\ untilSuccess = IdleUntilSuccess
    /\ fireblocks = NoCalls
    /\ web3 = NoWeb3
    /\ sign = IdleSign
    /\ transfer = IdleTransfer
    /\ rpc = NoRpcCalls
    /\ select = IdleSelect
    /\ pollAll = IdlePollAll
    /\ legacy = IdleLegacy
    /\ btc = IdleBtc
    /\ resume = IdleResume

NotifyNext == \E s \in Slots : PollStep(s)

NotifySpec == NotifyInit /\ [][NotifyNext]_vars

\* ------------------------------------------------------------------------
\* ResumeSpec: one call of resumeTransaction, or of pollTransaction, for a
\* transaction in any status
\* ------------------------------------------------------------------------
ResumeConfigs ==
    {[intervalMs |-> 1, timeoutMs |-> 1], [intervalMs |-> 1, timeoutMs |-> 2],
     [intervalMs |-> 2, timeoutMs |-> 1]}

ResumeInit ==
    /\ now = 0
    /\ \E id \in TxIds, config \in ResumeConfigs, viaResume \in BOOLEAN :
          /\ resume = IF viaResume
                      THEN ResumeTransaction(id, config.intervalMs, config.timeoutMs)
                      ELSE IdleResume
          /\ poll = [s \in Slots |->
                       IF s = 1 /\ ~viaResume
                       THEN [StartPoll(id, config.intervalMs, config.timeoutMs, 0)
                                EXCEPT !.observed = TRUE]
                       ELSE IdlePoll]
    /\ untilSuccess = IdleUntilSuccess
    /\ fireblocks = NoCalls
    /\ web3 = NoWeb3
    /\ sign = IdleSign
    /\ transfer = IdleTransfer
    /\ rpc = NoRpcCalls
    /\ select = IdleSelect
    /\ pollAll = IdlePollAll
    /\ legacy = IdleLegacy
    /\ btc = IdleBtc

ResumeNext ==
    \/ ResumeStep
    \/ \E s \in Slots : PollStep(s)

ResumeSpec == ResumeInit /\ [][ResumeNext]_vars

\* ------------------------------------------------------------------------
\* LegacySpec: one call of the legacy signBtcTransaction, from its
\* createTransaction call on
\* ------------------------------------------------------------------------
LegacyInit ==
    /\ now = 0
    /\ legacy = [IdleLegacy EXCEPT !.pc = "create"]
    /\ poll = [s \in Slots |-> IdlePoll]
    /\ untilSuccess = IdleUntilSuccess
    /\ fireblocks = NoCalls
    /\ web3 = NoWeb3
    /\ sign = IdleSign
    /\ transfer = IdleTransfer
    /\ rpc = NoRpcCalls
    /\ select = IdleSelect
    /\ pollAll = IdlePollAll
    /\ btc = IdleBtc
    /\ resume = IdleResume

LegacyNext == LegacyStep

LegacySpec == LegacyInit /\ [][LegacyNext]_vars

\* ------------------------------------------------------------------------
\* PollSpec: one call of pollTransaction or of pollTransactionUntilSuccess,
\* with any transaction id and any config within the bounds
\* ------------------------------------------------------------------------
PollInit ==
    /\ now = 0
    /\ \E id \in TxIds, i \in 1..MaxIntervalMs, t \in 1..MaxTimeoutMs :
          poll = [s \in Slots |->
                     IF s = 1 THEN [StartPoll(id, i, t, 0) EXCEPT !.observed = TRUE]
                     ELSE IdlePoll]
    /\ \E viaUntilSuccess \in BOOLEAN :
          untilSuccess = [IdleUntilSuccess EXCEPT
                             !.pc = IF viaUntilSuccess THEN "awaitPoll" ELSE "idle"]
    /\ fireblocks = NoCalls
    /\ web3 = NoWeb3
    /\ sign = IdleSign
    /\ transfer = IdleTransfer
    /\ rpc = NoRpcCalls
    /\ select = IdleSelect
    /\ pollAll = IdlePollAll
    /\ legacy = IdleLegacy
    /\ btc = IdleBtc
    /\ resume = IdleResume

PollNext ==
    \/ \E s \in Slots : PollStep(s)
    \/ UntilSuccessResume

PollSpec == PollInit /\ [][PollNext]_vars

\* The event loop runs whatever can run: a settled promise's continuation, a
\* due timer; and every remote call settles (resolves or rejects).
PollLive == PollSpec /\ WF_vars(PollNext)

\* ------------------------------------------------------------------------
\* Properties of the poller
\* ------------------------------------------------------------------------
Ended(p) == p.pc \in {"returned", "threw"}

Elapsed(p) == p.endedAt - p.startTime

\* the statuses the specification buckets as pending and as failure
PendingStatuses == {"PENDING_SIGNATURE", "FUTURE_STATUS"}
FailureStatuses == {"FAILED", "BLOCKED", "REJECTED"}

IsTimeoutOf(e, p) ==
    /\ e.name = "TransactionTimeoutError"
    /\ e.transactionId = p.transactionId
    /\ e.timeoutMs = p.timeoutMs

\* C1: every call of pollTransaction ends, by returning a PollingResult or
\* by raising an error, whatever statuses the service reports (unknown and
\* never-changing ones included) and whichever fetches fail.
C1_PollAlwaysFinishes ==
    \A s \in Slots : (poll[s].pc # "idle") ~> Ended(poll[s])

\* a poll that saw only a status the code does not know, lost a fetch, and
\* ended all the same
C1_Witness ==
    \E s \in Slots :
        /\ Ended(poll[s])
        /\ poll[s].firstStatus = "FUTURE_STATUS"
        /\ ~poll[s].statusChanged
        /\ poll[s].laterFetchOk
        /\ poll[s].laterFetchFailed

\* C2: a poll whose transaction keeps one pending status ends with a
\* TransactionTimeoutError that carries the transaction id and that status,
\* raised at an elapsed time from timeoutMs to timeoutMs + intervalMs.
C2_TimeoutWhenStatusNeverChanges ==
    \A s \in Slots :
        LET p == poll[s] IN
        (Ended(p) /\ p.firstStatus \in PendingStatuses /\ ~p.statusChanged) =>
            /\ p.pc = "threw"
            /\ IsTimeoutOf(p.error, p)
            /\ p.error.context.lastStatus = p.firstStatus
            /\ Elapsed(p) >= p.timeoutMs
            /\ Elapsed(p) <= p.timeoutMs + p.intervalMs

\* a poll of a transaction that stayed PENDING_SIGNATURE over several
\* successful fetches and timed out
C2_Witness ==
    \E s \in Slots :
        /\ poll[s].pc = "threw"
        /\ poll[s].firstStatus = "PENDING_SIGNATURE"
        /\ ~poll[s].statusChanged
        /\ poll[s].laterFetchOk
        /\ ~poll[s].laterFetchFailed
        /\ poll[s].timeoutMs > poll[s].intervalMs

\* C3: cancelTransactionById is called only when the last fetched status is
\* a failure status: never in a poll that returns CANCELLED or COMPLETED and
\* never in a poll that ends with the local timeout.
C3_CancelOnlyOnFailure ==
    \A s \in Slots :
        LET p == poll[s]
            cancels == IF p.pc = "idle" THEN 0 ELSE fireblocks.cancels[p.transactionId]
        IN  /\ (p.pc = "cancel" \/ cancels > 0) => p.lastOkStatus \in FailureStatuses
            /\ (p.pc = "returned" /\ p.result.finalStatus \in {"CANCELLED", "COMPLETED"})
                  => cancels = 0
            /\ p.pc = "threw" => cancels = 0

\* polls that ended CANCELLED, and polls that timed out, after several fetches
C3_Witness ==
    \E s \in Slots :
        /\ poll[s].laterFetchOk
        /\ \/ poll[s].pc = "returned" /\ poll[s].result.finalStatus = "CANCELLED"
           \/ poll[s].pc = "threw" /\ poll[s].error.name = "TransactionTimeoutError"

\* C4: once a fetch returned FAILED, BLOCKED or REJECTED the poll fetches no
\* more: it attempts the cancel once and returns that status.
C4_FailureStatusStopsPoll ==
    \A s \in Slots :
        LET p == poll[s] IN
        p.lastOkStatus \in FailureStatuses =>
            /\ p.pc \in {"cancel", "returned"}
            /\ p.pc = "returned" =>
                  /\ p.result.finalStatus = p.lastOkStatus
                  /\ fireblocks.cancels[p.transactionId] = 1

\* C5: pollTransactionUntilSuccess returns the snapshot exactly when the
\* poll's final status is COMPLETED, and otherwise raises a TransactionError
\* with the transaction id, the final status and the poll's cancelled flag.
C5_UntilSuccessOutcome ==
    LET p == poll[untilSuccess.slot] IN
    (untilSuccess.pc \in {"returned", "threw"} /\ p.pc = "returned") =>
        IF p.result.finalStatus = "COMPLETED"
        THEN /\ untilSuccess.pc = "returned"
             /\ untilSuccess.transactionInfo = p.result.transactionInfo
        ELSE /\ untilSuccess.pc = "threw"
             /\ untilSuccess.error.name = "TransactionError"
             /\ untilSuccess.error.transactionId = p.transactionId
             /\ untilSuccess.error.status = p.result.finalStatus
             /\ untilSuccess.error.context.cancelled = p.result.cancelled

\* a BLOCKED transaction whose cancel went through, reported as an error
C5_Witness ==
    /\ untilSuccess.pc = "threw"
    /\ untilSuccess.error.status = "BLOCKED"
    /\ untilSuccess.error.context.cancelled = TRUE

\* C6: a failed fetch of the loop does not end the poll: the poll keeps the
\* last fetched status and sleeps intervalMs before it fetches again, unless
\* the timeout, counted from the start of the poll, is over; a poll that
\* loses every later fetch ends with TransactionTimeoutError.
C6_FetchFailureIsRetried ==
    \A s \in Slots :
        LET p == poll[s] IN
        /\ p.lastFetchFailed =>
              /\ p.currentStatus = p.lastOkStatus
              /\ p.transactionInfo.status = p.lastOkStatus
              /\ \/ p.pc = "sleeping" /\ p.wakeAt = now + p.intervalMs
                 \/ p.pc = "fetch"
                 \/ /\ p.pc = "threw"
                    /\ IsTimeoutOf(p.error, p)
                    /\ Elapsed(p) > p.timeoutMs
                    /\ Elapsed(p) <= p.timeoutMs + p.intervalMs
        /\ (Ended(p) /\ p.laterFetchFailed /\ ~p.laterFetchOk) =>
              /\ IsTimeoutOf(p.error, p)
              /\ p.error.context.lastStatus = p.firstStatus

\* a poll all of whose later fetches failed, more than once, and that timed out
C6_Witness ==
    \E s \in Slots :
        /\ poll[s].pc = "threw"
        /\ poll[s].laterFetchFailed
        /\ ~poll[s].laterFetchOk
        /\ fireblocks.gets[poll[s].transactionId] >= 3

\* ------------------------------------------------------------------------
\* Properties of the signing flow
\* ------------------------------------------------------------------------
\* the transfer goes through the RPC proxy (native and ERC-20 routes)
SigningRoute == transfer.route \in {"native", "erc20"}

\* the first signature of a snapshot that has one
HasFirstSignature(info) ==
    /\ info.signedMessages.present
    /\ info.signedMessages.list # <<>>

\* the poll of the signing transaction ended as the claim lists
PollEndedWithoutSuccess(p) ==
    \/ p.pc = "threw" /\ p.error.name = "TransactionTimeoutError"
    \/ p.pc = "returned" /\ p.result.finalStatus \in {"FAILED", "BLOCKED", "CANCELLED"}

\* C7: on the native and ERC-20 routes sendSignedTransaction is called only
\* after the poll of the signing transaction returned COMPLETED with a
\* signature, and what is sent carries that signature; when the poll ends
\* with the local timeout or with FAILED, BLOCKED or CANCELLED, nothing is or
\* will be sent, and transfer ends by raising the poll's timeout error as it
\* was raised, or a TransactionError with the polled id and the final status.
C7_BroadcastOnlyAfterCompletedSignature ==
    SigningRoute =>
        /\ (transfer.pc = "sendSignedTransaction" \/ rpc.broadcasts # <<>>) =>
              /\ poll[1].pc = "returned"
              /\ poll[1].result.finalStatus = "COMPLETED"
              /\ poll[1].result.transactionInfo.status = "COMPLETED"
              /\ HasFirstSignature(poll[1].result.transactionInfo)
              /\ sign.signed.r = poll[1].result.transactionInfo.signedMessages.list[1].signature.r
              /\ sign.signed.s = poll[1].result.transactionInfo.signedMessages.list[1].signature.s
              /\ \A i \in DOMAIN rpc.broadcasts : rpc.broadcasts[i] = sign.signed
        /\ PollEndedWithoutSuccess(poll[1]) =>
              /\ rpc.broadcasts = <<>>
              /\ transfer.pc \in {"signTransaction", "threw"}
              /\ transfer.pc = "threw" =>
                    IF poll[1].pc = "threw"
                    THEN transfer.error = poll[1].error
                    ELSE /\ transfer.error.name = "TransactionError"
                         /\ transfer.error.transactionId = poll[1].transactionId
                         /\ transfer.error.status = poll[1].result.finalStatus

\* a transfer that ended with the timeout error of the poll of its signing
\* transaction, nothing sent
C7_Witness ==
    /\ SigningRoute
    /\ transfer.pc = "threw"
    /\ poll[1].pc = "threw"
    /\ IsTimeoutOf(transfer.error, poll[1])
    /\ rpc.broadcasts = <<>>

\* C8: the address of every nonce query of the signing flow is the first
\* deposit address of the vault, the default account of the Web3 instance
\* that initWeb3Instance returned.
C8_NonceQueriedForVaultAddress ==
    \A i \in DOMAIN rpc.nonceQueries :
        /\ rpc.nonceQueries[i] # Null
        /\ rpc.nonceQueries[i] = web3[ReturnedWeb3]

\* C9: with existingTransactionId the signing flow calls no createTransaction,
\* has fetched that transaction once when its poll starts, and polls that
\* id; without it, the flow has issued exactly one createTransaction when
\* its poll starts and none after, a RAW one of the digest of the built
\* transaction, and polls the id the service answered.
C9_ResumeOrCreateOnce ==
    SigningRoute =>
        IF transfer.existingTransactionId # Undefined
        THEN /\ fireblocks.created = <<>>
             /\ poll[1].pc # "idle" =>
                   /\ poll[1].transactionId = transfer.existingTransactionId
                   /\ fireblocks.gets[poll[1].transactionId] >= 1
                   /\ poll[1].pc = "initialFetch" =>
                         fireblocks.gets[poll[1].transactionId] = 1
        ELSE /\ Len(fireblocks.created) <= 1
             /\ poll[1].pc # "idle" =>
                   /\ Len(fireblocks.created) = 1
                   /\ fireblocks.created[1].payload.operation = "RAW"
                   /\ fireblocks.created[1].payload.content =
                         GetMessageToSign(Transaction(sign.txData, sign.nonce), sign.chainId)
                   /\ poll[1].transactionId = fireblocks.created[1].id
                   /\ poll[1].pc = "initialFetch" =>
                         fireblocks.gets[poll[1].transactionId] = 0

\* a resumed transfer whose poll of the existing transaction has ended
C9_Witness ==
    /\ SigningRoute
    /\ transfer.existingTransactionId = "tx2"
    /\ Ended(poll[1])
    /\ poll[1].transactionId = "tx2"
    /\ fireblocks.created = <<>>

\* C10: when the poll of the signing transaction returned COMPLETED and the
\* snapshot has no signed message (signedMessages absent or empty), the
\* signing flow ends by raising a TransactionError with the polled id and
\* status COMPLETED; no signed transaction is built and none is sent.
C10_CompletedWithoutSignatureIsError ==
    (/\ untilSuccess.pc = "returned"
     /\ ~HasFirstSignature(untilSuccess.transactionInfo)
     /\ sign.pc # "poll") =>
        /\ sign.pc = "threw"
        /\ sign.error.name = "TransactionError"
        /\ sign.error.transactionId = poll[1].transactionId
        /\ sign.error.status = "COMPLETED"
        /\ sign.signed = NoSigned
        /\ transfer.pc \in {"signTransaction", "threw"}
        /\ rpc.broadcasts = <<>>

\* a signing flow that raised on a COMPLETED snapshot whose signedMessages is
\* an empty list
C10_Witness ==
    /\ sign.pc = "threw"
    /\ untilSuccess.pc = "returned"
    /\ untilSuccess.transactionInfo.status = "COMPLETED"
    /\ untilSuccess.transactionInfo.signedMessages.present
    /\ untilSuccess.transactionInfo.signedMessages.list = <<>>
    /\ transfer.pc = "threw"

\* C11: the signed transaction has the nonce, gasPrice, gasLimit, to, value
\* and data of the unsigned transaction whose digest was submitted for
\* signing, r and s of the signature of the first signed message, and
\* v = chainId * 2 + signature.v + 35.
C11_SignedTransactionFields ==
    sign.pc = "returned" =>
        LET signature == untilSuccess.transactionInfo.signedMessages.list[1].signature
            submitted == fireblocks.created[1].payload.content
        IN
        /\ submitted = GetMessageToSign(sign.signed.tx, sign.chainId)
        /\ sign.signed.tx.nonce = sign.nonce
        /\ sign.signed.tx.to = sign.txData.to
        /\ sign.signed.tx.value = sign.txData.value
        /\ sign.signed.tx.data = sign.txData.data
        /\ sign.signed.tx.gasPrice = sign.txData.gasPrice
        /\ sign.signed.tx.gasLimit = sign.txData.gasLimit
        /\ sign.signed.r = signature.r
        /\ sign.signed.s = signature.s
        /\ sign.signed.v = sign.chainId * 2 + signature.v + 35

\* a transaction signed for Sepolia with signature.v = 1: v is 22310258
C11_Witness ==
    /\ sign.pc = "returned"
    /\ sign.chainId = 11155111
    /\ untilSuccess.transactionInfo.signedMessages.list[1].signature.v = 1
    /\ sign.signed.v = 22310258
    /\ sign.signed.tx.value = OneEther

\* ------------------------------------------------------------------------
\* Properties of the transfer engine
\* ------------------------------------------------------------------------
InternalSteps ==
    {"internalGetBalance", "internalGetGasPrice", "internalGetBalanceAgain",
     "internalCreate"}
Erc20Steps == {"erc20Decimals", "erc20BalanceOf", "erc20GetGasPrice", "erc20EstimateGas"}
NativeSteps == {"nativeGetBalance", "nativeGetGasPrice"}

\* C12: a call of transfer takes one route: the internal transfer when
\* destinationVault > 0, with or without an ERC-20 contract address; else the
\* ERC-20 transfer when a contract address is given; else the native
\* transfer. Only the steps of that route run: an internal transfer signs
\* and broadcasts nothing and creates no RAW request, the other two create
\* nothing but RAW requests, for a call of the contract (ERC-20) or for a
\* payment to the recipient (native).
C12_ExactlyOneRoute ==
    /\ transfer.route # Undefined =>
          /\ transfer.route = "internal" <=> transfer.destinationVault > 0
          /\ transfer.route = "erc20" <=>
                (transfer.destinationVault <= 0 /\ transfer.erc20ContractAddress # Undefined)
          /\ transfer.route = "native" <=>
                (transfer.destinationVault <= 0 /\ transfer.erc20ContractAddress = Undefined)
    /\ transfer.pc \in InternalSteps => transfer.route = "internal"
    /\ transfer.pc \in Erc20Steps => transfer.route = "erc20"
    /\ transfer.pc \in NativeSteps => transfer.route = "native"
    /\ transfer.pc \in {"signTransaction", "sendSignedTransaction"} =>
          transfer.route \in {"erc20", "native"}
    /\ (sign.pc # "idle" \/ rpc.broadcasts # <<>>) => transfer.route \in {"erc20", "native"}
    /\ \A i \in DOMAIN fireblocks.created :
          fireblocks.created[i].payload.operation = "RAW" <=> transfer.route # "internal"
    /\ sign.pc # "idle" =>
          IF transfer.route = "erc20"
          THEN /\ sign.txData.to = transfer.erc20ContractAddress
               /\ sign.txData.data.method = "transfer"
               /\ sign.txData.data.recipient = transfer.recipientAddress
          ELSE /\ sign.txData.to = transfer.recipientAddress
               /\ sign.txData.data = NoData

\* an internal transfer that was given an ERC-20 contract address too, done
C12_Witness ==
    /\ transfer.pc = "returned"
    /\ transfer.destinationVault > 0
    /\ transfer.erc20ContractAddress # Undefined
    /\ transfer.route = "internal"
    /\ Len(fireblocks.created) = 1
    /\ sign.pc = "idle"

\* C13: a native transfer with transferAmount 0 sends the full balance: the
\* value of the transaction it has signed is the balance less the gas fee
\* gasPrice * 21000 (998950000000000000 wei for a balance of one ether and
\* a gas price of 50 gwei), and never zero.
C13_NativeZeroAmountSendsFullBalance ==
    (/\ transfer.route = "native"
     /\ IsZeroAmount(transfer.transferAmount)
     /\ sign.pc # "idle") =>
        /\ sign.txData.value =
              BigSub(transfer.balance,
                     BigMul(transfer.gasPrice, SIMPLE_TRANSFER_LIMIT)).magnitude
        /\ ~BigIsZero(sign.txData.value)

\* C14: an ERC-20 transfer with transferAmount 0 transfers the full token
\* balance: the amount of the encoded call is what balanceOf(default account)
\* answered, and never zero.
C14_Erc20ZeroAmountSendsFullBalance ==
    (/\ transfer.route = "erc20"
     /\ IsZeroAmount(transfer.transferAmount)
     /\ sign.pc # "idle") =>
        /\ sign.txData.data.amount = transfer.balance
        /\ ~BigIsZero(sign.txData.data.amount)

\* C15: an internal transfer with transferAmount 0 submits, in units of the
\* asset, the balance that was read (it is read in wei) less, for the native
\* asset only, the gas fee gasPrice * 21000; when that would be negative the
\* transfer fails with InsufficientBalanceError and nothing is created.
C15_InternalZeroAmountSubmitsBalance ==
    (/\ transfer.route = "internal"
     /\ IsZeroAmount(transfer.transferAmount)) =>
        /\ \A i \in DOMAIN fireblocks.created :
              fireblocks.created[i].payload.amount =
                 IF transfer.assetSymbol = "ETH"
                 THEN FromWei(BigSub(transfer.balance,
                                     BigMul(transfer.gasPrice,
                                            SIMPLE_TRANSFER_LIMIT)).magnitude)
                 ELSE FromWei(transfer.balance)
        /\ (/\ transfer.pc = "threw"
            /\ transfer.error.name = "InsufficientBalanceError") =>
              /\ fireblocks.created = <<>>
              /\ BigGt(BigMul(transfer.gasPrice, SIMPLE_TRANSFER_LIMIT),
                       transfer.balance)

\* C16: an internal transfer is polled to a terminal status before transfer
\* returns: when it has returned, the poll of the transaction that was
\* created has ended with a terminal status, and nothing was created twice.
C16_InternalTransferIsPolled ==
    (/\ transfer.route = "internal"
     /\ transfer.pc = "returned") =>
        /\ Len(fireblocks.created) = 1
        /\ poll[1].pc = "returned"
        /\ poll[1].transactionId = fireblocks.created[1].id
        /\ IsTerminalStatus(poll[1].result.finalStatus)

\* a > b for two canonical digit sequences, by length and then by the first
\* digit that differs
RECURSIVE DigitsAfter(_, _)
DigitsAfter(a, b) ==
    /\ a # <<>>
    /\ \/ a[1] > b[1]
       \/ a[1] = b[1] /\ DigitsAfter(Tail(a), Tail(b))

Exceeds(a, b) == Len(a) > Len(b) \/ (Len(a) = Len(b) /\ DigitsAfter(a, b))

\* the amount asked for, in wei, as its decimal digits: the digits of the
\* whole part, then the fraction padded to 18 places
AmountInWei(amount) ==
    StripZeros(amount.whole \o amount.frac \o Zeros(18 - Len(amount.frac)))

\* the balance read by the native or the ERC-20 handler cannot cover the
\* amount asked for (18 decimals in the model of the whole transfer)
BalanceChecked ==
    /\ transfer.route \in {"native", "erc20"}
    /\ transfer.balance # NoBalance

Uncovered ==
    /\ BalanceChecked
    /\ \/ transfer.route = "native" /\ transfer.balance = <<0>>
       \/ Exceeds(AmountInWei(transfer.transferAmount), transfer.balance)

\* C17: when the amount asked for exceeds the balance (ERC-20: the amount in
\* smallest units is above balanceOf; native: the amount in wei is above the
\* balance, or the balance is zero), the transfer fails with
\* InsufficientBalanceError (unless the node refuses the gas price request
\* that precedes the comparison), no signing request is created and nothing
\* is broadcast; and InsufficientBalanceError is raised by these handlers in
\* no other case.
C17_InsufficientBalanceStopsBeforeSigning ==
    /\ Uncovered =>
          /\ sign.pc = "idle"
          /\ fireblocks.created = <<>>
          /\ rpc.broadcasts = <<>>
          /\ poll[1].pc = "idle"
          /\ transfer.pc \in {"nativeGetGasPrice", "threw"}
          /\ transfer.pc = "threw" =>
                \/ transfer.error.name = "InsufficientBalanceError"
                \/ transfer.error = OtherError("Error", "getGasPrice")
    /\ (/\ transfer.route \in {"native", "erc20"}
        /\ transfer.pc = "threw"
        /\ transfer.error.name = "InsufficientBalanceError") => Uncovered

\* a native transfer of two ether from an account that holds one has failed
C17_Witness ==
    /\ transfer.route = "native"
    /\ transfer.pc = "threw"
    /\ transfer.error.name = "InsufficientBalanceError"
    /\ transfer.transferAmount = Integer(2)
    /\ transfer.balance = OneEther
    /\ transfer.amount = <<2>> \o Zeros(18)
    /\ sign.pc = "idle"
    /\ fireblocks.created = <<>>
    /\ rpc.broadcasts = <<>>

\* C19: transfer raises ValidationError for malformed input (vault id, asset
\* id, negative amount, or on the native and ERC-20 routes a recipient that
\* is not an address) before any remote call: the signing service and the
\* RPC node have been asked nothing.
C19_ValidationBeforeRemoteCalls ==
    (/\ transfer.pc = "threw"
     /\ transfer.error.name = "ValidationError") =>
        /\ fireblocks = NoCalls
        /\ rpc = NoRpcCalls

\* the digits of the integer part of amount * 10^decimals: the whole part,
\* then the first `decimals` digits of the fraction, padded with zeros
ExactProduct(amount, decimals) ==
    StripZeros(amount.whole \o SubSeq(amount.frac \o Zeros(decimals), 1, decimals))

\* balanceOf has answered and the amount was converted: toWei has not raised
Converted ==
    /\ transfer.route = "erc20"
    /\ transfer.balance # NoBalance
    /\ transfer.error # OtherError("Error", "toWei")

\* C18: convertToSmallestTokenUnit gives exactly amount * 10^decimals, the
\* amount being the decimal number that amount.toString() prints, for
\* decimals 0, 6, 8 and 18: no digit is altered, and digits are dropped only
\* below the token's smallest unit (when the amount has more than `decimals`
\* decimals); 0.1 with 18 decimals gives 100000000000000000. The amount of
\* the encoded call is that number. The conversion fails only for an amount
\* that prints with more than 18 decimals.
C18_ConvertIsExact ==
    /\ Converted =>
          /\ transfer.amount = ExactProduct(transfer.transferAmount, transfer.decimals)
          /\ Len(transfer.transferAmount.frac) <= transfer.decimals =>
                transfer.amount \o Zeros(18 - transfer.decimals) =
                   AmountInWei(transfer.transferAmount)
                \/ (transfer.amount = <<0>> /\ AmountInWei(transfer.transferAmount) = <<0>>)
          /\ (/\ transfer.transferAmount = Decimal(FALSE, <<0>>, <<1>>)
              /\ transfer.decimals = 18) =>
                transfer.amount = <<1>> \o Zeros(17)
          /\ sign.pc # "idle" => sign.txData.data.amount = transfer.amount
    /\ (transfer.route = "erc20" /\ transfer.balance # NoBalance) =>
          (Converted <=> Len(transfer.transferAmount.frac) <= 18)

\* 0.1 token of 18 decimals is sent for signing as 100000000000000000
C18_Witness ==
    /\ transfer.route = "erc20"
    /\ transfer.transferAmount = Decimal(FALSE, <<0>>, <<1>>)
    /\ transfer.decimals = 18
    /\ sign.pc # "idle"
    /\ sign.txData.data.amount = <<1>> \o Zeros(17)

\* ------------------------------------------------------------------------
\* Properties of signBtcTransaction
\* ------------------------------------------------------------------------
\* the value of a decimal string of at most one digit before the point is
\* above zero: some digit of it is not 0
HasNonZeroDigit(s) == \E i \in 1..Len(s) : s[i] \in {"1", "2", "3", "4", "5", "6", "7", "8", "9"}

\* the amount strings of the model that parse to a positive number: those
\* that start with a digit and have a digit that is not 0
ParsesPositive(s) ==
    /\ s # <<>>
    /\ s[1] \in {"0", "1", "2", "3", "4", "5", "6", "7", "8", "9"}
    /\ HasNonZeroDigit(s)

\* the input of signBtcTransaction is invalid as the specification lists
InvalidBtcInput(params) ==
    \/ Len(params.destinations) = 0
    \/ Len(params.destinations) > 100
    \/ \E i \in 1..Len(params.destinations) :
          \/ params.destinations[i].vaultid = ""
          \/ ~ParsesPositive(params.destinations[i].amount)
    \/ \E i \in 1..Len(params.selectedUTXOs.list) :
          \/ params.selectedUTXOs.list[i].txHash = ""
          \/ params.selectedUTXOs.list[i].indexMissing
          \/ params.selectedUTXOs.list[i].index < 0

\* C20: whenever its input is invalid (no destination, more than 100, a
\* destination without vaultid or whose amount does not parse to a positive
\* number, a selected UTXO without txHash or with a negative index),
\* signBtcTransaction raises ValidationError and the signing service is
\* never called: no createTransaction, getTransactionById or
\* cancelTransactionById.
C20_InvalidBtcInputIsRejected ==
    (btc.pc # "idle" /\ InvalidBtcInput(btc.params)) =>
        /\ fireblocks = NoCalls
        /\ poll[1].pc = "idle"
        /\ btc.pc \in {"validate", "threw"}
        /\ btc.pc = "threw" => btc.error.name = "ValidationError"

\* 101 valid destinations were refused
C20_Witness ==
    /\ btc.pc = "threw"
    /\ btc.error.name = "ValidationError"
    /\ btc.params.vaultAccountId = "0"
    /\ btc.params.assetId = "BTC"
    /\ Len(btc.params.destinations) = 101
    /\ fireblocks = NoCalls

\* the input passes every validation of signBtcTransaction, said without
\* the operators of the model: vault "0", asset "BTC", 1 to 100
\* destinations, each with a vault id and an amount that parses to a
\* positive number, and selected UTXOs, if any, with a hash and an index
\* that is not negative
ValidBtcInput(params) ==
    /\ params.vaultAccountId = "0"
    /\ params.assetId = "BTC"
    /\ ~InvalidBtcInput(params)

\* C21: for valid input signBtcTransaction issues exactly one
\* createTransaction, polls the id it was answered with
\* pollTransactionUntilSuccess and returns the snapshot of that poll; an
\* error of the poll (TransactionError, TransactionTimeoutError) reaches the
\* caller as it is; createTransaction is never called a second time.
C21_BtcCreatesOnceThenPolls ==
    /\ Len(fireblocks.created) <= 1
    /\ (ValidBtcInput(btc.params) /\ btc.pc # "validate") =>
          /\ btc.pc # "createTransaction" => Len(fireblocks.created) = 1
          /\ btc.pc = "threw" /\ btc.error.name = "Error" =>
                /\ fireblocks.created[1].id = Undefined
                /\ poll[1].pc = "idle"
          /\ btc.pc \in {"poll", "returned"}
                \/ (btc.pc = "threw" /\ btc.error.name # "Error") =>
                /\ fireblocks.created[1].id = btc.txId
                /\ fireblocks.created[1].payload.operation = "TRANSFER"
                /\ poll[1].transactionId = btc.txId
                /\ poll[1].intervalMs = INTERVAL_MS
                /\ poll[1].timeoutMs = TIMEOUT_MS
                /\ untilSuccess.pc # "idle"
          /\ btc.pc = "returned" =>
                /\ untilSuccess.pc = "returned"
                /\ poll[1].pc = "returned"
                /\ btc.transactionInfo = poll[1].result.transactionInfo
                /\ btc.transactionInfo.id = btc.txId
                /\ btc.transactionInfo.status = "COMPLETED"
          /\ (btc.pc = "threw" /\ btc.error.name # "Error") =>
                /\ untilSuccess.pc = "threw"
                /\ btc.error = untilSuccess.error
                /\ btc.error.name \in {"TransactionError", "TransactionTimeoutError"}
                /\ btc.error.transactionId = btc.txId

\* a valid request with two selected UTXOs whose poll timed out: the
\* TransactionTimeoutError reached the caller, after one createTransaction
C21_Witness ==
    /\ btc.pc = "threw"
    /\ ValidBtcInput(btc.params)
    /\ Len(btc.params.selectedUTXOs.list) = 2
    /\ btc.error.name = "TransactionTimeoutError"
    /\ btc.error = poll[1].error
    /\ Len(fireblocks.created) = 1

\* C22: in signBtcTransaction an empty selectedUTXOs array is the same as no
\* selectedUTXOs: either way the request that is created carries no
\* inputsSelection; when UTXOs are selected, inputsToSpend lists the
\* (txHash, index) pairs of exactly those UTXOs, in the order given.
C22_SelectedUTXOsInRequest ==
    \A k \in DOMAIN fireblocks.created :
       LET extra == fireblocks.created[k].payload.extraParameters
           selected == btc.params.selectedUTXOs.list
       IN /\ Len(selected) = 0 =>
                /\ ~extra.inputsSelection
                /\ extra.inputsToSpend = <<>>
                /\ fireblocks.created[k].payload =
                      [operation |-> "TRANSFER", assetId |-> btc.params.assetId,
                       source |-> [type |-> "VAULT_ACCOUNT",
                                   id |-> btc.params.vaultAccountId],
                       destinations |->
                          [i \in 1..Len(btc.params.destinations) |->
                              [destination |->
                                  [type |-> "VAULT_ACCOUNT",
                                   id |-> btc.params.destinations[i].vaultid],
                               amount |-> btc.params.destinations[i].amount]],
                       extraParameters |-> extra]
          /\ Len(selected) > 0 =>
                /\ extra.inputsSelection
                /\ Len(extra.inputsToSpend) = Len(selected)
                /\ \A i \in 1..Len(selected) :
                      /\ extra.inputsToSpend[i].txHash = selected[i].txHash
                      /\ extra.inputsToSpend[i].index = selected[i].index

\* a request was created for a call with two selected UTXOs, index 1 first
C22_Witness ==
    /\ Len(fireblocks.created) = 1
    /\ Len(btc.params.selectedUTXOs.list) = 2
    /\ fireblocks.created[1].payload.extraParameters.inputsToSpend =
          <<[txHash |-> "abc", index |-> 1], [txHash |-> "abc", index |-> 0]>>

\* ------------------------------------------------------------------------
\* Properties of selectUTXOsForAmount
\* ------------------------------------------------------------------------
RECURSIVE SumOfAmounts(_)
SumOfAmounts(utxos) ==
    IF utxos = <<>> THEN 0 ELSE AmountOf(Head(utxos)) + SumOfAmounts(Tail(utxos))

\* where a UTXO stands in the list that was passed
PositionOf(utxo) == CHOOSE i \in 1..Len(select.given) : select.given[i] = utxo

\* u comes before v when the UTXOs are ordered by amount descending, equal
\* amounts in the order of the input
ComesBefore(u, v) ==
    \/ AmountOf(u) > AmountOf(v)
    \/ AmountOf(u) = AmountOf(v) /\ PositionOf(u) < PositionOf(v)

Chosen == {select.selected[i] : i \in 1..Len(select.selected)}

Available == {select.given[i] : i \in 1..Len(select.given)}

\* C23: selectUTXOsForAmount returns the shortest prefix of the available
\* UTXOs, ordered by amount descending with equal amounts in input order,
\* whose amounts sum to at least the target: the selection is in that order,
\* holds no UTXO twice, leaves out only UTXOs that come after all it holds,
\* reaches the target and would not without its last UTXO; [5, 3, 2] with
\* target 6 gives [5, 3]; the array that was passed is as it was.
C23_ShortestPrefixByAmount ==
    select.pc = "returned" =>
        /\ Chosen \subseteq Available
        /\ Cardinality(Chosen) = Len(select.selected)
        /\ \A i \in 1..(Len(select.selected) - 1) :
              ComesBefore(select.selected[i], select.selected[i + 1])
        /\ \A u \in Chosen, v \in Available \ Chosen : ComesBefore(u, v)
        /\ SumOfAmounts(select.selected) >= select.targetAmount
        /\ select.selected # <<>> =>
              SumOfAmounts(SubSeq(select.selected, 1, Len(select.selected) - 1))
                 < select.targetAmount
        /\ (/\ [i \in 1..Len(select.given) |-> select.given[i].amount]
                  = <<<<"5">>, <<"3">>, <<"2">>>>
            /\ select.targetAmount = 6) =>
              select.selected = SubSeq(select.given, 1, 2)
        /\ select.utxos = select.given

\* amounts [3, 5, 3] with target 11: the selection is the 5, then the two
\* 3s in the order they were passed
C23_Witness ==
    /\ select.pc = "returned"
    /\ select.targetAmount = 11
    /\ [i \in 1..Len(select.given) |-> select.given[i].amount]
          = <<<<"3">>, <<"5">>, <<"3">>>>
    /\ select.selected = <<select.given[2], select.given[1], select.given[3]>>

\* C24: when the amounts of all the available UTXOs sum to less than the
\* target, and only then, selectUTXOsForAmount raises an error: nothing is
\* selected, and the error states the target as the required amount and the
\* sum of all the UTXOs as the available amount.
C24_InsufficientUTXOsError ==
    /\ select.pc \in {"returned", "threw"} =>
          (select.pc = "threw" <=> SumOfAmounts(select.given) < select.targetAmount)
    /\ select.pc = "threw" =>
          /\ select.selected = <<>>
          /\ select.error.name = "ValidationError"
          /\ select.error.required = select.targetAmount
          /\ select.error.available = SumOfAmounts(select.given)

\* one UTXO of amount 1 and target 5: required 5, available 1
C24_Witness ==
    /\ select.pc = "threw"
    /\ Len(select.given) = 1
    /\ select.given[1].amount = <<"1">>
    /\ select.targetAmount = 5
    /\ select.error.required = 5
    /\ select.error.available = 1

\* C26: nothing is retried: whatever its route and its outcome, one call of
\* transfer issues at most one createTransaction and at most one
\* sendSignedTransaction (each call is counted, refused ones too), and none
\* after it has ended in an error.
C26_NoRetry ==
    /\ Len(fireblocks.created) <= 1
    /\ Len(rpc.broadcasts) <= 1
    /\ transfer.existingTransactionId # Undefined /\ transfer.route # "internal" =>
          fireblocks.created = <<>>
    /\ (transfer.pc = "threw" /\ sign.pc = "threw") => rpc.broadcasts = <<>>

\* the signing transaction of a transfer FAILED: the transfer ended in that
\* error after one createTransaction and without a broadcast
C26_Witness ==
    /\ transfer.pc = "threw"
    /\ transfer.error.name = "TransactionError"
    /\ transfer.error.status = "FAILED"
    /\ Len(fireblocks.created) = 1
    /\ rpc.broadcasts = <<>>

\* C27: when pollTransaction returns, finalStatus is the status of the
\* snapshot it returns, which is the last one a fetch answered; cancelled is
\* true only if that status is a failure status and the service accepted the
\* cancel; a cancel the service refused does not make the poll raise: it
\* returns that same status with cancelled false.
C27_ResultMatchesLastSnapshot ==
    \A s \in Slots :
        LET p == poll[s]
            id == p.transactionId
        IN  /\ p.pc = "returned" =>
                  /\ p.result.finalStatus = p.result.transactionInfo.status
                  /\ p.result.transactionInfo.id = id
                  /\ p.observed => p.result.finalStatus = p.lastOkStatus
                  /\ p.result.cancelled =>
                        /\ p.result.finalStatus \in {"FAILED", "BLOCKED", "REJECTED"}
                        /\ id \in fireblocks.cancelled
                  /\ id \in fireblocks.cancelled => p.result.cancelled
            /\ (p.pc # "idle" /\ fireblocks.cancels[IF p.pc = "idle" THEN "tx1" ELSE id] > 0) =>
                  /\ p.pc = "returned"
                  /\ p.observed => p.result.finalStatus = p.lastOkStatus

\* the cancel of a FAILED transaction was refused: the poll returned FAILED
\* with cancelled false
C27_Witness ==
    \E s \in Slots :
        /\ poll[s].pc = "returned"
        /\ poll[s].result.finalStatus = "FAILED"
        /\ poll[s].laterFetchOk
        /\ fireblocks.cancels[poll[s].transactionId] = 1
        /\ poll[s].transactionId \notin fireblocks.cancelled
        /\ ~poll[s].result.cancelled

\* C28: no failure of getTransactionById, whichever fetch of the poll it
\* hits, makes pollTransaction raise an error of its own: a poll that raised
\* an error raised TransactionTimeoutError.
C28_FetchFailureNeverRaises ==
    \A s \in Slots :
        poll[s].pc = "threw" => IsTimeoutOf(poll[s].error, poll[s])

\* the first fetch of a poll failed and the poll ended at once, with a
\* TransactionError and no further fetch
C28_InitialFetchFailureRaises ==
    \E s \in Slots :
        /\ poll[s].pc = "threw"
        /\ poll[s].error.name = "TransactionError"
        /\ poll[s].error.context.operation = "pollTransaction"
        /\ fireblocks.gets[poll[s].transactionId] = 1
        /\ poll[s].endedAt = poll[s].startTime

\* the RAW requests the service has received
RawRequests == {i \in DOMAIN fireblocks.created : fireblocks.created[i].payload.operation = "RAW"}

\* C29: one signTransactionViaFireblocks call resolves the chain id, then the
\* nonce, then computes the digest, then creates the RAW request or fetches
\* the existing transaction, then polls, then reassembles: the nonce is asked
\* for once, after the chain id is known, and the digest is the one of the
\* transaction that carries that nonce under that chain id.
C29_SigningStepsInOrder ==
    sign.pc # "idle" =>
        LET chainKnown == sign.chainId \in ChainIds
            nonceAsked == rpc.nonceQueries # <<>>
            digested == sign.content # NoContent
            requested == sign.txId # Undefined
            polling == untilSuccess.pc # "idle"
            reassembled == sign.signed # NoSigned
        IN  /\ sign.pc = "getChainId" => ~chainKnown /\ ~nonceAsked
            /\ nonceAsked => chainKnown /\ Len(rpc.nonceQueries) = 1
            /\ sign.pc = "getTransactionCount" => nonceAsked /\ ~digested
            /\ digested =>
                  /\ nonceAsked
                  /\ sign.tx = Transaction(sign.txData, sign.nonce)
                  /\ sign.content = GetMessageToSign(sign.tx, sign.chainId)
            /\ ~digested => RawRequests = {} /\ ~requested
            /\ sign.pc \in {"create", "resume"} =>
                  digested /\ ~requested /\ RawRequests = {} /\ ~polling
            /\ \A i \in RawRequests :
                  fireblocks.created[i].payload.content = sign.content
            /\ requested =>
                  /\ digested
                  /\ IF HasExisting(transfer.existingTransactionId)
                     THEN /\ RawRequests = {}
                          /\ sign.txId = transfer.existingTransactionId
                          /\ fireblocks.gets[sign.txId] >= 1
                     ELSE /\ Cardinality(RawRequests) = 1
                          /\ \E i \in RawRequests : fireblocks.created[i].id = sign.txId
            /\ polling <=> requested
            /\ polling => poll[1].transactionId = sign.txId
            /\ sign.pc = "poll" => requested /\ ~reassembled
            /\ reassembled =>
                  /\ sign.pc = "returned"
                  /\ untilSuccess.pc = "returned"
                  /\ sign.signed.tx = sign.tx

\* a signing that went through all the steps with a nonce that is not 0
C29_Witness ==
    /\ sign.pc = "returned"
    /\ sign.nonce > 0
    /\ sign.signed # NoSigned
    /\ Cardinality(RawRequests) = 1
    /\ fireblocks.gets[sign.txId] >= 2

\* the bucket the two functions of shared/types.ts put a status in
Bucket(status) ==
    IF status = "COMPLETED" THEN "success"
    ELSE IF status = "CANCELLED" THEN "cancelled"
    ELSE IF IsFailedStatus(status) THEN "failure"
    ELSE "pending"

\* C30: every status a poll has fetched is in one bucket, success for
\* COMPLETED, cancelled for CANCELLED, failure for FAILED, BLOCKED and
\* REJECTED, pending for all others, and no status is a failure status for
\* isFailedStatus and not terminal for isTerminalStatus.
C30_FailureStatusesAreTerminal ==
    \A s \in Slots :
        LET status == poll[s].currentStatus IN
        status \in Statuses =>
            /\ Bucket(status) = "failure" <=> status \in FailureStatuses
            /\ Bucket(status) = "pending" <=> status \in PendingStatuses
            /\ IsFailedStatus(status) => IsTerminalStatus(status)

\* a poll fetched REJECTED, which isFailedStatus accepts and isTerminalStatus
\* does not, and carried on
C30_RejectedIsFailedAndNotTerminal ==
    \E s \in Slots :
        /\ poll[s].currentStatus = "REJECTED"
        /\ IsFailedStatus(poll[s].currentStatus)
        /\ ~IsTerminalStatus(poll[s].currentStatus)
        /\ poll[s].pc = "sleeping"

\* C25: pollTransactions starts one poll per id of the array, all before any
\* of them has an answer; when it returns, every poll has returned and the
\* i-th result is the result of the poll of the i-th id, in whatever order
\* the polls ended: it carries that id and the last status that poll fetched.
C25_ResultsInInputOrder ==
    LET ids == pollAll.transactionIds IN
    /\ pollAll.pc # "idle" =>
          \A i \in DOMAIN ids :
              /\ poll[i].pc # "idle"
              /\ poll[i].transactionId = ids[i]
              /\ poll[i].startTime = 0
    /\ pollAll.pc = "returned" =>
          /\ Len(pollAll.values) = Len(ids)
          /\ \A i \in DOMAIN ids :
                /\ poll[i].pc = "returned"
                /\ pollAll.values[i] = poll[i].result
                /\ pollAll.values[i].transactionInfo.id = ids[i]
                /\ pollAll.values[i].finalStatus = poll[i].lastOkStatus
    /\ pollAll.pc = "threw" =>
          \E i \in DOMAIN ids : poll[i].pc = "threw" /\ pollAll.error = poll[i].error

\* the poll of the second id ended first, with another status than the
\* poll of the first id, and pollTransactions returned both
C25_Witness ==
    /\ pollAll.pc = "returned"
    /\ pollAll.transactionIds = <<"tx1", "tx2">>
    /\ pollAll.settled = <<2, 1>>
    /\ poll[2].endedAt < poll[1].endedAt
    /\ pollAll.values[1].finalStatus = "COMPLETED"
    /\ pollAll.values[2].finalStatus = "FAILED"

\* the statuses the specification buckets as terminal
TerminalStatuses == {"COMPLETED", "CANCELLED"} \cup FailureStatuses

\* C31: a poll whose first fetch answers a terminal status makes no other
\* getTransactionById call and never sleeps: it goes on to return at the
\* time it started.
C31_TerminalAtFirstFetchReturnsAtOnce ==
    \A s \in Slots :
        LET p == poll[s] IN
        (p.observed /\ p.firstStatus \in TerminalStatuses) =>
            /\ p.pc \in {"cancel", "returned"}
            /\ fireblocks.gets[p.transactionId] = 1
            /\ p.pc = "returned" => p.endedAt = p.startTime

\* the first fetch answered REJECTED and the poll went to sleep
C31_RejectedAtFirstFetchSleeps ==
    \E s \in Slots :
        /\ poll[s].firstStatus = "REJECTED"
        /\ poll[s].pc = "sleeping"
        /\ fireblocks.gets[poll[s].transactionId] = 1

\* the part of C31 that holds: the statuses isTerminalStatus names
C31_NamedTerminalAtFirstFetch ==
    \A s \in Slots :
        LET p == poll[s] IN
        (p.observed /\ p.firstStatus \in TerminalNamed) =>
            /\ p.pc \in {"cancel", "returned"}
            /\ fireblocks.gets[p.transactionId] = 1
            /\ p.pc = "returned" => p.endedAt = p.startTime

\* C32: the calls onStatusChange has received are the statuses of the
\* successful fetches, the initial one included, one call per fetch and in
\* fetch order, repeated statuses included; a failed fetch makes no call.
C32_OneStatusChangePerSuccessfulFetch ==
    \A s \in Slots :
        LET p == poll[s] IN
        p.onStatusChange =>
            /\ p.statusChanges = p.okStatuses
            /\ Len(p.statusChanges) <= fireblocks.gets[p.transactionId]
            /\ (p.pc # "initialFetch" /\ ~p.laterFetchFailed /\ p.okStatuses # <<>>) =>
                  Len(p.statusChanges) = fireblocks.gets[p.transactionId]
            /\ p.okStatuses # <<>> =>
                  /\ p.statusChanges[1] = p.firstStatus
                  /\ p.statusChanges[Len(p.statusChanges)] = p.lastOkStatus

\* the callback was called three times, twice in a row with the same
\* status, and a fetch in between failed without a call
C32_Witness ==
    \E s \in Slots :
        /\ poll[s].onStatusChange
        /\ poll[s].statusChanges = <<"PENDING_SIGNATURE", "PENDING_SIGNATURE", "COMPLETED">>
        /\ poll[s].laterFetchFailed
        /\ fireblocks.gets[poll[s].transactionId] = 4
        /\ poll[s].pc = "returned"

\* the sum of the amounts of a set of UTXOs
RECURSIVE SumOfSet(_)
SumOfSet(utxos) ==
    IF utxos = {} THEN 0
    ELSE LET u == CHOOSE u \in utxos : TRUE IN AmountOf(u) + SumOfSet(utxos \ {u})

\* C33: the selection selectUTXOsForAmount returns has the least number of
\* UTXOs that can reach the target: every set of available UTXOs with fewer
\* UTXOs than the selection sums to less than the target.
C33_SelectionHasFewestInputs ==
    select.pc = "returned" =>
        \A fewer \in SUBSET Available :
            Cardinality(fewer) < Len(select.selected) =>
                SumOfSet(fewer) < select.targetAmount

\* 2, 5 and 1 with target 6: the two UTXOs selected are 5 and 2, and other
\* pairs (2 and 1) fall short
C33_Witness ==
    /\ select.pc = "returned"
    /\ select.targetAmount = 6
    /\ [i \in 1..Len(select.given) |-> select.given[i].amount]
          = <<<<"2">>, <<"5">>, <<"1">>>>
    /\ select.selected = <<select.given[2], select.given[1]>>

\* the slots of pollTransactions whose poll raised an error that Promise.all
\* has seen, and the first of them
Raised == {i \in DOMAIN pollAll.settled : poll[pollAll.settled[i]].pc = "threw"}

FirstRaised == pollAll.settled[CHOOSE i \in Raised : \A j \in Raised : i <= j]

\* C34: once the poll of one id has raised an error, pollTransactions has
\* rejected with the error of the first poll that raised and never returns
\* results, whatever the other polls return; the other polls are not
\* stopped: each still makes its next call (getTransactionById or
\* cancelTransactionById) and wakes from its sleep.
C34_AllOrNothing ==
    /\ Raised # {} =>
          /\ pollAll.pc = "threw"
          /\ pollAll.error = poll[FirstRaised].error
          /\ pollAll.error.name \in {"TransactionTimeoutError", "TransactionError"}
    /\ pollAll.pc = "threw" => Raised # {}
    /\ pollAll.pc = "returned" =>
          \A s \in DOMAIN pollAll.transactionIds : poll[s].pc = "returned"
    /\ (pollAll.pc = "threw" /\ \A t \in Slots : ~Unsettled(t)) =>
          \A s \in DOMAIN pollAll.transactionIds :
              /\ poll[s].pc \in {"initialFetch", "fetch", "cancel"} =>
                    ENABLED PollTransactionsStep(s)
              /\ (/\ poll[s].pc = "sleeping"
                  /\ \A t \in Slots \ {s} : poll[t].pc \in {"idle", "returned", "threw"}) =>
                    ENABLED PollTransactionsStep(s)

\* the first fetch for the second id failed and pollTransactions rejected
\* with that error; the poll of the first id went on, fetched FAILED at a
\* later time, had its cancel accepted and returned
C34_Witness ==
    /\ pollAll.pc = "threw"
    /\ pollAll.transactionIds = <<"tx1", "tx2">>
    /\ pollAll.settled = <<2, 1>>
    /\ pollAll.error = poll[2].error
    /\ poll[2].endedAt = 0
    /\ fireblocks.gets["tx2"] = 1
    /\ poll[1].pc = "returned"
    /\ poll[1].endedAt > 0
    /\ poll[1].result.finalStatus = "FAILED"
    /\ poll[1].result.cancelled
    /\ fireblocks.gets["tx1"] >= 2
    /\ fireblocks.cancels["tx1"] = 1

\* C35: on a transaction whose first fetched status is FAILED or BLOCKED,
\* resumeTransaction and pollTransaction do the same: one
\* cancelTransactionById call before they return, and a result with that
\* status whose cancelled tells whether the service accepted the cancel.
C35_ResumeAgreesWithPoll ==
    /\ (resume.pc = "returned" /\ resume.firstStatus \in {"FAILED", "BLOCKED"}) =>
          /\ resume.result.finalStatus = resume.firstStatus
          /\ fireblocks.cancels[resume.transactionId] = 1
          /\ resume.result.cancelled <=> resume.transactionId \in fireblocks.cancelled
    /\ (/\ resume.pc = "idle"
        /\ poll[1].pc = "returned"
        /\ poll[1].firstStatus \in {"FAILED", "BLOCKED"}) =>
          /\ poll[1].result.finalStatus = poll[1].firstStatus
          /\ fireblocks.cancels[poll[1].transactionId] = 1
          /\ poll[1].result.cancelled <=> poll[1].transactionId \in fireblocks.cancelled

\* resumeTransaction found the transaction FAILED and returned it without a
\* cancelTransactionById call
C35_ResumeReturnsWithoutCancel ==
    /\ resume.pc = "returned"
    /\ resume.firstStatus = "FAILED"
    /\ resume.result.finalStatus = "FAILED"
    /\ ~resume.result.cancelled
    /\ fireblocks.gets[resume.transactionId] = 1
    /\ fireblocks.cancels[resume.transactionId] = 0

\* pollTransaction found the transaction FAILED, had its cancel accepted
\* and returned cancelled true
C35_PollCancels ==
    /\ resume.pc = "idle"
    /\ poll[1].pc = "returned"
    /\ poll[1].firstStatus = "FAILED"
    /\ poll[1].result.cancelled
    /\ fireblocks.gets[poll[1].transactionId] = 1
    /\ fireblocks.cancels[poll[1].transactionId] = 1

\* the part of C35 that holds: pollTransaction alone
C35_PollAlone ==
    (/\ resume.pc = "idle"
     /\ poll[1].pc = "returned"
     /\ poll[1].firstStatus \in {"FAILED", "BLOCKED"}) =>
        /\ fireblocks.cancels[poll[1].transactionId] = 1
        /\ poll[1].result.cancelled <=> poll[1].transactionId \in fireblocks.cancelled

\* the content that the request behind the signature was asked to sign
SignedContent ==
    IF HasExisting(transfer.existingTransactionId)
    THEN fireblocks.existing[1].content
    ELSE fireblocks.created[CHOOSE i \in RawRequests : TRUE].payload.content

\* C36: the signature in the signed transaction that
\* signTransactionViaFireblocks returns was made for the digest of that
\* same transaction, on the create path and on the resume path.
C36_SignatureSignsReturnedTransaction ==
    sign.pc = "returned" =>
        SignedContent = GetMessageToSign(sign.signed.tx, sign.chainId)

\* a resumed signing returned a transaction with nonce 1 and the signature
\* of a request that signed the same transaction with nonce 0
C36_ResumedWithOtherNonce ==
    /\ sign.pc = "returned"
    /\ HasExisting(transfer.existingTransactionId)
    /\ sign.signed.tx.nonce = 1
    /\ SignedContent.digestOf.nonce = 0
    /\ SignedContent.digestOf = [sign.signed.tx EXCEPT !.nonce = 0]
    /\ fireblocks.created = <<>>

\* the part of C36 that holds: the create path
C36_CreatePath ==
    (sign.pc = "returned" /\ ~HasExisting(transfer.existingTransactionId)) =>
        /\ Cardinality(RawRequests) = 1
        /\ SignedContent = GetMessageToSign(sign.signed.tx, sign.chainId)

\* the gas fee of the transaction sent for signing, and what the balance
\* leaves once its value is taken
GasFee == BigMul(sign.txData.gasPrice, sign.txData.gasLimit)

LeftAfterValue == BigSub(transfer.balance, sign.txData.value)

\* C37: a native transfer that has been sent for signing is affordable: the
\* gas limit is 21000 and the value plus the fee gasPrice * 21000 is not
\* above the balance read at the start of the transfer.
C37_NativeTransferIsAffordable ==
    (transfer.route = "native" /\ sign.pc # "idle") =>
        /\ sign.txData.gasLimit = 21000
        /\ sign.txData.value = transfer.amount
        /\ ~LeftAfterValue.negative
        /\ ~BigGt(GasFee, LeftAfterValue.magnitude)

\* a transfer of one ether from an account that holds one ether, at a gas
\* price of 50 gwei, was signed and broadcast: nothing is left for the fee
C37_WholeBalanceIsSent ==
    /\ transfer.route = "native"
    /\ transfer.transferAmount = Integer(1)
    /\ transfer.balance = OneEther
    /\ sign.txData.value = OneEther
    /\ ~BigIsZero(GasFee)
    /\ sign.pc = "returned"
    /\ rpc.broadcasts # <<>>

\* the part of C37 that holds: the value alone is not above the balance
C37_ValueIsCovered ==
    (transfer.route = "native" /\ sign.pc # "idle") =>
        /\ sign.txData.gasLimit = 21000
        /\ ~LeftAfterValue.negative

\* C38: the polling loop of the legacy signBtcTransaction ends once a fetch
\* has answered a final status, COMPLETED, FAILED, BLOCKED, CANCELLED or
\* REJECTED: no getTransactionById call is issued after such an answer.
C38_LegacyLoopEndsOnFinalStatus ==
    (legacy.fetches > 0 /\ legacy.txStatus \in TerminalStatuses) =>
        legacy.pc \in {"sleeping", "returned"}

\* the transaction was CANCELLED at the first fetch and at the second, and
\* the loop is fetching a third time
C38_CancelledIsPolledAgain ==
    /\ legacy.txStatus = "CANCELLED"
    /\ legacy.fetches = 2
    /\ legacy.pc = "fetch"
    /\ fireblocks.gets[legacy.txId] = 2
    /\ now = 2 * LEGACY_PAUSE_MS

\* the part of C38 that holds: COMPLETED, FAILED and BLOCKED end the loop
C38_NamedStatusesEndLoop ==
    legacy.txStatus \in {"COMPLETED", "FAILED", "BLOCKED"} =>
        legacy.pc \in {"sleeping", "returned"}

====
